---- MODULE Spec2Model ----
(***************************************************************************)
(* Model of the caption-extraction task manager (create / query / cancel,  *)
(* the detached ASR job, the TTL sweep) and of the single-flight Douyin    *)
(* web-session cache of the dev-server plugin.                             *)
(*                                                                         *)
(* The server is one Node.js event loop.  A step of the model is the code  *)
(* that runs between two suspension points (await) of one handler or of    *)
(* one detached job; steps of different handlers and jobs interleave.      *)
(* Time (Date.now(), in milliseconds) advances only between steps.         *)
(***************************************************************************)
EXTENDS Integers, Sequences, FiniteSets, TLC

\* ---------------------------------------------------------------------------
\* Bounds of the model
\* ---------------------------------------------------------------------------
MaxTasks == 1

MaxTicks == 2

MaxStrLen == 2

NCallers == 2

MaxRefresh == 3

MaxVideos == 3

MaxDigg == 2

\* the clock stops here in the specification of the poll loop
MaxClock == 302000

\* ---------------------------------------------------------------------------
\* Program constants
\* ---------------------------------------------------------------------------
CAPTION_TASK_TTL_MS == 3600000

pollInterval == 2000

maxWaitMs == 300000

\* refreshDouyinWebSession: const ttlMs = 29 * 60 * 1000
ttlMs == 1740000

\* getDouyinWebSession: expiresAt - 60_000
SESSION_MARGIN_MS == 60000

\* task.error / snapshot.error after a cancellation ('已取消请求。')
CANCEL_MSG == "cancelled_request"

\* ---------------------------------------------------------------------------
\* Strings: sequences over a two-letter alphabet, one of them white space
\* ---------------------------------------------------------------------------
Chars == {" ", "a"}

\* undefined / null of an optional string field
None == <<"undefined">>

Strs == UNION {[1..n -> Chars] : n \in 0..MaxStrLen}

IsSet(s) == s # None

RECURSIVE TrimLeft(_)
TrimLeft(s) == IF s # <<>> /\ Head(s) = " " THEN TrimLeft(Tail(s)) ELSE s

RECURSIVE TrimRight(_)
TrimRight(s) ==
  IF s # <<>> /\ s[Len(s)] = " " THEN TrimRight(SubSeq(s, 1, Len(s) - 1)) ELSE s

\* String.prototype.trim
Trim(s) == TrimRight(TrimLeft(s))

\* a || b on strings ('' is falsy)
OrElse(a, b) == IF a # "" THEN a ELSE b

\* ---------------------------------------------------------------------------
\* Tasks
\* ---------------------------------------------------------------------------
Ids == 1..MaxTasks

\* taskId parameter that is missing or empty
NoId == 0

NoError == "undefined"

\* the heap object of an id no task was created for
NoTask ==
  [status |-> "NONE", stage |-> "none", message |-> "", transcript |-> None,
   error |-> NoError, publicFileUrl |-> "undefined", createdAt |-> 0,
   updatedAt |-> 0, aborted |-> FALSE]

finished_any(tk) == TRUE

\* cleanupCaptionTasks: const finished
finished(tk) == tk.status \in {"SUCCESS", "FAILURE", "CANCELLED"}

tooOld_ge(n, tk) == n - tk.updatedAt >= CAPTION_TASK_TTL_MS

\* cleanupCaptionTasks: const tooOld
tooOld(n, tk) == n - tk.updatedAt > CAPTION_TASK_TTL_MS

\* cleanupCaptionTasks: the registry after the sweep
cleanupCaptionTasks(reg, tasks, n) ==
  {id \in reg : ~(tooOld(n, tasks[id]) /\ finished(tasks[id]))}

snapshotCaptionTask(tk) ==
  [status |-> tk.status, stage |-> tk.stage, message |-> tk.message,
   transcript |-> tk.transcript, error |-> tk.error,
   publicFileUrl |-> tk.publicFileUrl, createdAt |-> tk.createdAt,
   updatedAt |-> tk.updatedAt]

NoSnap == snapshotCaptionTask(NoTask)

CaptionTask_waiting(caption, n) ==
  [NoTask EXCEPT !.status = "WAITING", !.stage = "queued",
                 !.message = "caption_reused", !.transcript = Trim(caption),
                 !.createdAt = n, !.updatedAt = n]

\* handleCaptionCreate: the task allocated when the metadata has a caption
CaptionTask(caption, n) ==
  [NoTask EXCEPT !.status = "SUCCESS", !.stage = "done",
                 !.message = "caption_reused", !.transcript = Trim(caption),
                 !.createdAt = n, !.updatedAt = n]

\* handleCaptionCreate: the task allocated for an ASR run
QueuedTask(n) ==
  [NoTask EXCEPT !.status = "WAITING", !.stage = "queued",
                 !.message = "task_created", !.createdAt = n, !.updatedAt = n]

update_stageOnly(tk, stage, message, n) ==
  [tk EXCEPT !.stage = stage, !.message = message, !.updatedAt = n]

\* handleCaptionCreate: const update = (stage, message) => ...
update(tk, stage, message, n) ==
  [tk EXCEPT !.status = "RUNNING", !.stage = stage, !.message = message,
             !.updatedAt = n]

\* handleCaptionCreate: the detached job's success path
JobSuccess(tk, transcript, publicUrl, n) ==
  [tk EXCEPT !.status = "SUCCESS", !.stage = "done", !.message = "extracted",
             !.transcript = transcript, !.publicFileUrl = publicUrl,
             !.updatedAt = n]

\* errors: message is the fixed part of the text, hint the excerpt of the
\* transcoder's stderr appended to it (empty for every other error)
NoErr == [name |-> "none", message |-> "", hint |-> <<>>]

Err(msg) == [name |-> "Error", message |-> msg, hint |-> <<>>]

AbortError ==
  [name |-> "AbortError", message |-> "This operation was aborted", hint |-> <<>>]

JobCatch_keepRunning(tk, err, n) ==
  [tk EXCEPT !.message = "extract_failed", !.updatedAt = n]

\* handleCaptionCreate: the detached job's catch block
JobCatch(tk, err, n) ==
  LET aborted == tk.aborted \/ err.name = "AbortError" \/ err.message = CANCEL_MSG
  IN [tk EXCEPT
        !.status = IF aborted THEN "CANCELLED" ELSE "FAILURE",
        !.stage = IF aborted THEN "cancelled" ELSE "failed",
        !.error = IF aborted THEN CANCEL_MSG ELSE err.message,
        !.message = IF aborted THEN "cancelled" ELSE "extract_failed",
        !.updatedAt = n]

CancelTask_noSignal(tk, n) ==
  [tk EXCEPT !.status = "CANCELLED", !.stage = "cancelled",
             !.message = "cancelled", !.error = CANCEL_MSG, !.updatedAt = n]

\* handleCaptionCancel: the body of if (status === 'RUNNING' || 'WAITING')
CancelTask(tk, n) ==
  [tk EXCEPT !.aborted = TRUE, !.status = "CANCELLED", !.stage = "cancelled",
             !.message = "cancelled", !.error = CANCEL_MSG, !.updatedAt = n]


\* ---------------------------------------------------------------------------
\* State
\* ---------------------------------------------------------------------------
VARIABLES
  now,            \* Date.now()
  ticks,          \* number of clock advances so far
  captionTasks,   \* keys of the captionTasks Map
  task,           \* the CaptionTask object of every id (abort.signal.aborted included)
  job,            \* position and locals of the detached job of every id
  asrCalls,       \* ASR adapter invocations per id
  nextId,         \* next fresh taskId (randomUUID)
  cr,             \* the handleCaptionCreate invocation in flight
  cn,             \* the handleCaptionCancel invocation in flight
  resp,           \* the HTTP response sent by the last step, if it sent one
  lastCancel,     \* snapshot returned by the latest 200 answer of cancel, per id
  douyinWebSession,      \* the cached session, or NoSession (null)
  douyinWebSessionLock,  \* the in-flight refresh promise (its refresh id), or 0 (null)
  refresh,        \* position of every refreshDouyinWebSession run
  nextRefresh,    \* id of the next refresh run: handshakes started so far, plus one
  fv,             \* the fetchUserVideos invocations
  call,           \* the latest application of a pure function: name, arguments, outcome
  rq              \* the link-handling HTTP request in flight: handler, position, locals

taskVars ==
  <<now, ticks, captionTasks, task, job, asrCalls, nextId, cr, cn, resp, lastCancel>>

sessionVars == <<douyinWebSession, douyinWebSessionLock, refresh, nextRefresh, fv>>

\* tmp: the temporary directory exists; rm: outcome of its removal; listener: onAbort
\* is registered on a signal that has not fired; killed: child.kill() was called; stderr: the captured stderr;
\* exit: how the child ended; polls: status requests sent by the poll loop
NoJob ==
  [pc |-> "none", provider |-> "none", caption |-> None, err |-> NoErr,
   tmp |-> FALSE, rm |-> "none", listener |-> FALSE, killed |-> FALSE,
   stderr |-> <<>>, exit |-> "none", startTime |-> 0,
   timer |-> 0, polls |-> 0, publicUrl |-> "undefined"]

NoResp ==
  [op |-> "none", taskId |-> NoId, code |-> 0, body |-> NoSnap,
   error |-> "", caption |-> None]

\* sendJson(res, status, {error})
ErrorResp(op, id, code, msg) ==
  [op |-> op, taskId |-> id, code |-> code, body |-> NoSnap, error |-> msg,
   caption |-> None]

\* sendJson(res, 200, snapshotCaptionTask(task))
SnapResp(op, id, tk, caption) ==
  [op |-> op, taskId |-> id, code |-> 200, body |-> snapshotCaptionTask(tk),
   error |-> "", caption |-> caption]

\* no pure function has been applied yet
NoCall == [fn |-> "none", arg |-> <<>>, ret |-> <<>>]

IdleReq == [pc |-> "idle", provider |-> "none", taskId |-> NoId]

TaskInit ==
  /\ now = 0
  /\ ticks = 0
  /\ captionTasks = {}
  /\ task = [id \in Ids |-> NoTask]
  /\ job = [id \in Ids |-> NoJob]
  /\ asrCalls = [id \in Ids |-> 0]
  /\ nextId = 1
  /\ cr = IdleReq
  /\ cn = IdleReq
  /\ resp = NoResp
  /\ lastCancel = [id \in Ids |-> NoSnap]

\* the awaits of the detached job that take the task's abort signal: fetch(..., {signal}),
\* the body reads of such a response, sleep(ms, signal)
AbortablePcs ==
  {"dl_fetch", "dl_body", "flash_fetch", "flash_body", "policy_fetch", "policy_body",
   "upload_fetch", "upload_errtext", "submit_fetch", "submit_body", "sleep",
   "poll_fetch", "poll_body", "result_fetch", "result_body"}

\* The promise the job of t awaits is already rejected: by the adapter that threw
\* before its first await, or by abort() on the signal it was given.  Its
\* continuation is a microtask: it runs before the clock advances and before any
\* other handler or job is resumed.
Urgent(t) ==
  \/ job[t].pc = "rejected"
  \/ task[t].aborted /\ job[t].pc \in AbortablePcs

MicrotaskPending == \E t \in Ids : Urgent(t)

\* The clock advances between steps, by one poll interval or by the TTL.
Tick ==
  /\ ~MicrotaskPending
  /\ ticks < MaxTicks
  /\ \E d \in {pollInterval, CAPTION_TASK_TTL_MS} : now' = now + d
  /\ ticks' = ticks + 1
  /\ resp' = NoResp
  /\ UNCHANGED <<captionTasks, task, job, asrCalls, nextId, cr, cn, lastCancel>>
  /\ UNCHANGED <<sessionVars, call, rq>>

\* ---------------------------------------------------------------------------
\* handleCaptionQuery
\* ---------------------------------------------------------------------------
handleCaptionQuery ==
  \E taskId \in Ids \cup {NoId} :
    LET reg == cleanupCaptionTasks(captionTasks, task, now) IN
    /\ ~MicrotaskPending
    /\ captionTasks' = reg
    /\ resp' = IF taskId = NoId THEN ErrorResp("query", taskId, 400, "missing_taskId")
               ELSE IF taskId \notin reg
                 THEN ErrorResp("query", taskId, 404, "not_found_or_expired")
               ELSE SnapResp("query", taskId, task[taskId], None)
    /\ UNCHANGED <<now, ticks, task, job, asrCalls, nextId, cr, cn, lastCancel>>
    /\ UNCHANGED <<sessionVars, call, rq>>

\* ---------------------------------------------------------------------------
\* handleCaptionCancel
\* ---------------------------------------------------------------------------
\* cleanupCaptionTasks(); method check; taskId from the query string; await readJsonBody
CancelBegin ==
  /\ ~MicrotaskPending
  /\ cn.pc = "idle"
  /\ captionTasks' = cleanupCaptionTasks(captionTasks, task, now)
  /\ \E method \in {"POST", "GET"}, qid \in Ids \cup {NoId} :
       IF method # "POST"
       THEN /\ resp' = ErrorResp("cancel", NoId, 405, "post_only")
            /\ cn' = cn
       ELSE /\ resp' = NoResp
            /\ cn' = [IdleReq EXCEPT !.pc = "body", !.taskId = qid]
  /\ UNCHANGED <<now, ticks, task, job, asrCalls, nextId, cr, lastCancel>>
  /\ UNCHANGED <<sessionVars, call, rq>>

\* task.abort.abort() runs the abort listeners: the transcoder's onAbort kills the
\* child and, registered with {once: true}, is removed by the call; the onAbort of
\* sleep clears its timer (clearTimeout) before it rejects
AbortListeners(j) ==
  [j EXCEPT !.killed = @ \/ j.listener, !.listener = FALSE, !.timer = 0]

\* the body has been read: lookup, cancel if RUNNING or WAITING, answer
CancelFinish ==
  /\ ~MicrotaskPending
  /\ cn.pc = "body"
  /\ \E bodyOk \in BOOLEAN, bid \in Ids \cup {NoId} :
       LET taskId == IF cn.taskId # NoId THEN cn.taskId
                     ELSE IF bodyOk THEN bid ELSE NoId
       IN
       IF taskId = NoId
       THEN /\ resp' = ErrorResp("cancel", taskId, 400, "missing_taskId")
            /\ UNCHANGED <<task, job, lastCancel>>
       ELSE IF taskId \notin captionTasks
       THEN /\ resp' = ErrorResp("cancel", taskId, 404, "not_found_or_expired")
            /\ UNCHANGED <<task, job, lastCancel>>
       ELSE
         LET tk == IF task[taskId].status \in {"RUNNING", "WAITING"}
                   THEN CancelTask(task[taskId], now) ELSE task[taskId]
         IN /\ task' = [task EXCEPT ![taskId] = tk]
            /\ job' = IF task[taskId].status \in {"RUNNING", "WAITING"}
                      THEN [job EXCEPT ![taskId] = AbortListeners(@)] ELSE job
            /\ resp' = SnapResp("cancel", taskId, tk, None)
            /\ lastCancel' = [lastCancel EXCEPT ![taskId] = snapshotCaptionTask(tk)]
  /\ cn' = IdleReq
  /\ UNCHANGED <<now, ticks, captionTasks, asrCalls, nextId, cr>>
  /\ UNCHANGED <<sessionVars, call, rq>>


\* ---------------------------------------------------------------------------
\* handleCaptionCreate
\* ---------------------------------------------------------------------------
\* cleanupCaptionTasks(); method check; await readJsonBody
CreateBegin ==
  /\ ~MicrotaskPending
  /\ cr.pc = "idle"
  /\ nextId <= MaxTasks
  /\ captionTasks' = cleanupCaptionTasks(captionTasks, task, now)
  /\ \E method \in {"POST", "GET"} :
       IF method # "POST"
       THEN /\ resp' = ErrorResp("create", NoId, 405, "post_only")
            /\ cr' = cr
       ELSE /\ resp' = NoResp
            /\ cr' = [IdleReq EXCEPT !.pc = "body"]
  /\ UNCHANGED <<now, ticks, task, job, asrCalls, nextId, cn, lastCancel>>
  /\ UNCHANGED <<sessionVars, call, rq>>

\* const provider = providerRaw === 'doubao' || ... ? providerRaw : appId || token ? ...
PickProvider(providerRaw, hasAppId, hasToken) ==
  IF providerRaw \in {"doubao", "dashscope"} THEN providerRaw
  ELSE IF hasAppId \/ hasToken THEN "doubao" ELSE "dashscope"

\* the checks between readJsonBody and resolveRedirects: "" when they all pass
CreateValidate(bodyOk, workUrl, provider, hasAppId, hasToken, hasApiKey) ==
  IF ~bodyOk THEN "invalid_json"
  ELSE IF workUrl = "" THEN "missing_workUrl"
  ELSE IF provider = "doubao" /\ ~hasAppId THEN "missing_doubaoAppId"
  ELSE IF provider = "doubao" /\ ~hasToken THEN "missing_doubaoToken"
  ELSE IF provider = "dashscope" /\ ~hasApiKey THEN "missing_dashscopeApiKey"
  ELSE IF workUrl # "douyin" THEN "not_a_douyin_link"
  ELSE ""

\* sendJson(res, 400, ...) for the explicit checks, 500 from the catch block
CreateErrorCode(msg) ==
  IF msg \in {"invalid_json", "not_a_douyin_link", "meta_failed", "no_play_url"}
  THEN 500 ELSE 400

\* the body has been read: validation, then await resolveRedirects
CreateBody ==
  /\ ~MicrotaskPending
  /\ cr.pc = "body"
  /\ \E bodyOk, hasAppId, hasToken, hasApiKey \in BOOLEAN,
        workUrl \in {"", "unsafe", "douyin"},
        providerRaw \in {"doubao", "dashscope", ""} :
       LET provider == PickProvider(providerRaw, hasAppId, hasToken)
           msg == CreateValidate(bodyOk, workUrl, provider, hasAppId, hasToken, hasApiKey)
       IN IF msg # ""
          THEN /\ resp' = ErrorResp("create", NoId, CreateErrorCode(msg), msg)
               /\ cr' = IdleReq
          ELSE /\ resp' = NoResp
               /\ cr' = [IdleReq EXCEPT !.pc = "resolve", !.provider = provider]
  /\ UNCHANGED <<now, ticks, captionTasks, task, job, asrCalls, nextId, cn, lastCancel>>
  /\ UNCHANGED <<sessionVars, call, rq>>

\* resolveRedirects has settled (its errors are ignored); parseVideoId; await fetchVideoMeta
CreateResolve ==
  /\ ~MicrotaskPending
  /\ cr.pc = "resolve"
  /\ \E idFound \in BOOLEAN :
       IF ~idFound
       THEN /\ resp' = ErrorResp("create", NoId, 400, "no_video_id")
            /\ cr' = IdleReq
       ELSE /\ resp' = NoResp
            /\ cr' = [cr EXCEPT !.pc = "meta"]
  /\ UNCHANGED <<now, ticks, captionTasks, task, job, asrCalls, nextId, cn, lastCancel>>
  /\ UNCHANGED <<sessionVars, call, rq>>

\* if (meta.caption && meta.caption.trim()) ... if (!meta.playUrl) ...
MetaDecision(caption, playUrl) ==
  IF IsSet(caption) /\ caption # <<>> /\ Trim(caption) # <<>> THEN "caption"
  ELSE IF playUrl = "none" THEN "noplay"
  ELSE "asr"

RegistersTask_early(decision) == decision \in {"caption", "asr", "noplay"}

\* the paths of handleCaptionCreate that reach captionTasks.set(taskId, task)
RegistersTask(decision) == decision \in {"caption", "asr"}

\* the task when the detached job reaches its first await:
\* dashscope calls update('downloading') before the adapter, both adapters call
\* onStage('downloading') once assertSafeExternalHttpUrl has passed
LaunchTask(tk, provider, playSafe, n) ==
  IF provider = "dashscope" \/ playSafe
  THEN update(tk, "downloading", "downloading_video", n) ELSE tk

LaunchPc_awaitsDownload(playSafe) == IF playSafe THEN "dl_body" ELSE "done"

\* where the detached job is suspended when create answers: on the download's
\* fetch, or on the adapter's promise that assertSafeExternalHttpUrl rejected
LaunchPc(playSafe) == IF playSafe THEN "dl_fetch" ELSE "rejected"

\* fetchVideoMeta has settled: caption shortcut, playUrl check, or task + detached job
CreateMeta ==
  /\ ~MicrotaskPending
  /\ cr.pc = "meta"
  /\ cr' = IdleReq
  /\ \/ /\ resp' = ErrorResp("create", NoId, 500, "meta_failed")
        /\ UNCHANGED <<captionTasks, task, job, asrCalls, nextId>>
     \/ \E caption \in Strs \cup {None}, playUrl \in {"none", "safe", "unsafe"} :
          LET decision == MetaDecision(caption, playUrl)
              taskId == nextId
              tk == IF decision = "caption" THEN CaptionTask(caption, now)
                    ELSE IF decision = "noplay" THEN QueuedTask(now)
                    ELSE LaunchTask(QueuedTask(now), cr.provider, playUrl = "safe", now)
          IN
          /\ IF RegistersTask(decision)
             THEN /\ captionTasks' = captionTasks \cup {taskId}
                  /\ task' = [task EXCEPT ![taskId] = tk]
                  /\ nextId' = nextId + 1
             ELSE UNCHANGED <<captionTasks, task, nextId>>
          /\ IF decision = "asr"
             THEN /\ job' = [job EXCEPT ![taskId] =
                       [NoJob EXCEPT !.pc = LaunchPc(playUrl = "safe"),
                                     !.provider = cr.provider,
                                     !.caption = caption,
                                     !.err = IF playUrl = "safe" THEN NoErr
                                             ELSE Err("unsafe_link")]]
                  /\ asrCalls' = [asrCalls EXCEPT ![taskId] = @ + 1]
             ELSE IF RegistersTask(decision)
             THEN /\ job' = [job EXCEPT ![taskId] = [NoJob EXCEPT !.caption = caption]]
                  /\ UNCHANGED asrCalls
             ELSE UNCHANGED <<job, asrCalls>>
          /\ resp' = IF decision = "noplay"
                     THEN [ErrorResp("create", NoId, 500, "no_play_url")
                             EXCEPT !.caption = caption]
                     ELSE SnapResp("create", taskId, tk, caption)
  /\ UNCHANGED <<now, ticks, cn, lastCancel>>
  /\ UNCHANGED <<sessionVars, call, rq>>


\* ---------------------------------------------------------------------------
\* The detached job: (async () => { try { ... } catch (err) { ... } })()
\* ---------------------------------------------------------------------------
\* what a step of the job of t leaves alone; it runs when no other job's microtask is due
JobFrame(t) ==
  /\ \A u \in Ids \ {t} : ~Urgent(u)
  /\ resp' = NoResp
  /\ UNCHANGED <<now, ticks, captionTasks, asrCalls, nextId, cr, cn, lastCancel>>
  /\ UNCHANGED <<sessionVars, call, rq>>

Throw_unhandled(t, err) ==
  /\ job' = [job EXCEPT ![t] = [@ EXCEPT !.pc = "done", !.err = err]]
  /\ UNCHANGED task

\* an adapter throws (or a promise it awaits rejects): the catch block runs
Throw(t, err) ==
  /\ task' = [task EXCEPT ![t] = JobCatch(@, err, now)]
  /\ job' = [job EXCEPT ![t] = [@ EXCEPT !.pc = "done", !.err = err]]

\* the adapter goes on to its next await without reporting a stage
Goto(t, pc) ==
  /\ job' = [job EXCEPT ![t] = [@ EXCEPT !.pc = pc]]
  /\ UNCHANGED task

\* onStage(stage, message), then the next await
Stage(t, stage, message, pc) ==
  /\ task' = [task EXCEPT ![t] = update(@, stage, message, now)]
  /\ job' = [job EXCEPT ![t] = [@ EXCEPT !.pc = pc]]

\* the adapter returned: the success path of the job
Return(t, transcript, publicUrl) ==
  /\ task' = [task EXCEPT ![t] = JobSuccess(@, transcript, publicUrl, now)]
  /\ job' = [job EXCEPT ![t] = [@ EXCEPT !.pc = "done"]]

\* the catch block for an adapter that threw before its first await
JobRejected(t) ==
  /\ job[t].pc = "rejected"
  /\ Throw(t, job[t].err)
  /\ JobFrame(t)

\* both adapters: await fetch(safeUrl, {signal}); if (!videoRes.ok) throw
DownloadFetch(t) ==
  /\ job[t].pc = "dl_fetch"
  /\ IF task[t].aborted THEN Throw(t, AbortError)
     ELSE \/ Throw(t, Err("fetch_failed"))
          \/ Throw(t, Err("download_http_error"))
          \/ Goto(t, "dl_body")
  /\ JobFrame(t)

\* both adapters: await videoRes.arrayBuffer(); flash enters extractMp3FromVideoBuffer
\* (aborted check, onStage('uploading'), await getFfmpegPath()), paraformer calls
\* onStage('uploading') and awaits the upload policy
DownloadBody(t) ==
  /\ job[t].pc = "dl_body"
  /\ IF task[t].aborted THEN Throw(t, AbortError)
     ELSE \/ Throw(t, Err("fetch_failed"))
          \/ IF job[t].provider = "doubao"
             THEN Stage(t, "uploading", "extracting_audio", "ffpath")
             ELSE Stage(t, "uploading", "uploading_temp_file", "policy_fetch")
  /\ JobFrame(t)

\* ---- extractMp3FromVideoBuffer (flash adapter) ----------------------------
\* await getFfmpegPath(); then await mkdtemp
FfmpegPath(t) ==
  /\ job[t].pc = "ffpath"
  /\ \/ Throw(t, Err("ffmpeg_unavailable"))
     \/ Goto(t, "mkdtemp")
  /\ JobFrame(t)

\* await mkdtemp(...); then await writeFile (inside try / finally)
Mkdtemp(t) ==
  /\ job[t].pc = "mkdtemp"
  /\ \/ Throw(t, Err("mkdtemp_failed"))
     \/ /\ job' = [job EXCEPT ![t] = [@ EXCEPT !.pc = "writefile", !.tmp = TRUE]]
        /\ UNCHANGED task
  /\ JobFrame(t)

\* await writeFile(...); then spawn(ffmpeg) and signal.addEventListener('abort', onAbort):
\* a listener added to a signal that has already fired is never called
WriteFile(t) ==
  /\ job[t].pc = "writefile"
  /\ \/ job' = [job EXCEPT ![t] = [@ EXCEPT !.pc = "rm", !.err = Err("write_failed")]]
     \/ job' = [job EXCEPT ![t] =
                  [@ EXCEPT !.pc = "ffmpeg", !.listener = ~task[t].aborted]]
  /\ UNCHANGED task
  /\ JobFrame(t)

\* tailText(text, maxChars)
TailText(s, maxChars) ==
  IF Len(s) <= maxChars THEN s ELSE SubSeq(s, Len(s) - maxChars + 1, Len(s))

STDERR_CAP == 20000

STDERR_TAIL == 1200

\* a line of diagnostics longer than the excerpt: "a", a blank, then 1200 times "a"
LongStderr == [i \in 1..(STDERR_TAIL + 2) |-> IF i = 2 THEN " " ELSE "a"]

\* what the child writes to stderr while it runs
StderrData == {<<" ">>, <<"a", " ">>, LongStderr}

\* child.stderr.on('data'): stderr += String(d), cut to its last 20000 characters
FfmpegData(t) ==
  /\ job[t].pc = "ffmpeg"
  /\ job[t].stderr = <<>>
  /\ \E d \in StderrData :
       job' = [job EXCEPT ![t] =
                 [@ EXCEPT !.stderr = TailText(job[t].stderr \o d, STDERR_CAP)]]
  /\ UNCHANGED task
  /\ JobFrame(t)

CloseVerdict_exitCodeFirst(aborted, code, stderr) ==
  IF code = 0 THEN NoErr
  ELSE IF aborted THEN Err(CANCEL_MSG)
  ELSE [Err("ffmpeg_exit_nonzero") EXCEPT !.hint = TailText(Trim(stderr), STDERR_TAIL)]

\* child.on('close', (code) => ...): NoErr when the promise resolves, else the
\* error it rejects with
CloseVerdict(aborted, code, stderr) ==
  IF aborted THEN Err(CANCEL_MSG)
  ELSE IF code = 0 THEN NoErr
  ELSE [Err("ffmpeg_exit_nonzero") EXCEPT !.hint = TailText(Trim(stderr), STDERR_TAIL)]

\* child 'error' or 'close': the listener is removed, the promise settles;
\* on resolve the job awaits readFile, on reject it awaits cleanup() in finally
Ffmpeg(t) ==
  /\ job[t].pc = "ffmpeg"
  /\ \E ev \in {"error", "close"}, code \in {0, 1} :
       LET err == IF ev = "error" THEN Err("spawn_failed")
                  ELSE CloseVerdict(task[t].aborted, code, job[t].stderr)
       IN job' = [job EXCEPT ![t] =
                    [@ EXCEPT !.pc = IF err = NoErr THEN "readfile" ELSE "rm",
                              !.err = err, !.listener = FALSE, !.stderr = <<>>,
                              !.exit = IF ev = "error" THEN "error"
                                       ELSE IF code = 0 THEN "code0" ELSE "code1"]]
  /\ UNCHANGED task
  /\ JobFrame(t)

\* await readFile(outputPath); if (!mp3.byteLength) throw; finally: await cleanup()
ReadFile(t) ==
  /\ job[t].pc = "readfile"
  /\ \E err \in {NoErr, Err("read_failed"), Err("empty_output")} :
       job' = [job EXCEPT ![t] = [@ EXCEPT !.pc = "rm", !.err = err]]
  /\ UNCHANGED task
  /\ JobFrame(t)

RmOutcome_noRemoval(exists, ok) == exists

\* rm(tmpRoot, {recursive: true, force: true}): whether the directory exists afterwards
RmOutcome(exists, ok) == exists /\ ~ok

\* cleanup() in finally: try { await rm(tmpRoot, ...) } catch { ignore }; then the
\* pending error is rethrown, or the mp3 is returned to the flash adapter:
\* onStage('submitting'), await fetch(flash, {signal})
Cleanup(t) ==
  /\ job[t].pc = "rm"
  /\ \E ok \in BOOLEAN :
       LET j == [job[t] EXCEPT !.tmp = RmOutcome(@, ok),
                               !.rm = IF ok THEN "removed" ELSE "failed"]
       IN IF job[t].err # NoErr
          THEN /\ task' = [task EXCEPT ![t] = JobCatch(@, job[t].err, now)]
               /\ job' = [job EXCEPT ![t] = [j EXCEPT !.pc = "done"]]
          ELSE /\ task' = [task EXCEPT ![t] =
                             update(@, "submitting", "submitting_doubao", now)]
               /\ job' = [job EXCEPT ![t] = [j EXCEPT !.pc = "flash_fetch"]]
  /\ JobFrame(t)

\* ---- transcribeWithDoubaoBigasrFlash --------------------------------------
\* await fetch(recognize/flash, {signal}); then await apiRes.text().catch(() => '')
FlashFetch(t) ==
  /\ job[t].pc = "flash_fetch"
  /\ IF task[t].aborted THEN Throw(t, AbortError)
     ELSE \/ Throw(t, Err("fetch_failed"))
          \/ Goto(t, "flash_body")
  /\ JobFrame(t)

FLASH_OK == 20000000

\* values of the header x-api-message and of the fields message and error of the
\* response body; "": absent
HeaderMessages == {"", "provider_message"}

BodyMessages == {"", "provider_message", "body_message"}

BodyErrors == {"", "provider_message", "body_error"}

FlashVerdict_httpOnly(httpOk, statusNum, statusMessage, bodyMessage, bodyError, text) ==
  IF ~httpOk THEN "doubao_http_error"
  ELSE IF Trim(text) = <<>> THEN "doubao_empty_text"
  ELSE ""

\* the decision of the flash adapter after the body was read: the error message
\* it throws, "" when it returns the transcript.  statusMessage: the header
\* x-api-message; bodyMessage, bodyError: apiData?.message, apiData?.error ("" when
\* absent or when the body is not JSON); text: apiData?.result?.text.
\* msg = statusMessage || apiData?.message || apiData?.error || default
FlashVerdict(httpOk, statusNum, statusMessage, bodyMessage, bodyError, text) ==
  IF ~httpOk THEN "doubao_http_error"
  ELSE IF statusNum # 0 /\ statusNum # FLASH_OK
    THEN OrElse(statusMessage, OrElse(bodyMessage, OrElse(bodyError, "doubao_asr_failed")))
  ELSE IF Trim(text) = <<>> THEN "doubao_empty_text"
  ELSE ""

\* apiRes.text() has settled (a rejection, e.g. by abort, reads as ''); verdict
FlashBody(t) ==
  /\ job[t].pc = "flash_body"
  /\ \E httpOk \in BOOLEAN, statusNum \in {0, FLASH_OK, FLASH_OK + 1},
        statusMessage \in HeaderMessages, bodyMessage \in BodyMessages,
        bodyError \in BodyErrors, body \in Strs :
       LET read == ~task[t].aborted
           text == IF read THEN body ELSE <<>>
           msg == FlashVerdict(httpOk, statusNum, statusMessage,
                               IF read THEN bodyMessage ELSE "",
                               IF read THEN bodyError ELSE "", text)
       IN IF msg # "" THEN Throw(t, Err(msg))
          ELSE Return(t, Trim(text), "undefined")
  /\ JobFrame(t)


\* ---- transcribeWithParaformer ---------------------------------------------
\* getDashscopeUploadPolicy: await fetch(uploads?action=getPolicy, {signal})
PolicyFetch(t) ==
  /\ job[t].pc = "policy_fetch"
  /\ IF task[t].aborted THEN Throw(t, AbortError)
     ELSE \/ Throw(t, Err("fetch_failed"))
          \/ Goto(t, "policy_body")
  /\ JobFrame(t)

\* getDashscopeUploadPolicy after await res.json().catch(() => null): the error
\* message it throws, "" when it returns the policy
PolicyVerdict(httpOk, parsed, hasCode, message, complete) ==
  IF ~httpOk \/ (parsed /\ hasCode)
    THEN OrElse(IF parsed THEN message ELSE "", "upload_policy_http_error")
  ELSE IF ~(parsed /\ complete) THEN "upload_policy_incomplete"
  ELSE ""

\* res.json() has settled (a rejection, e.g. by abort, reads as null); then
\* uploadToDashscopeTemporaryOss awaits fetch(policy.upload_host, {signal})
PolicyBody(t) ==
  /\ job[t].pc = "policy_body"
  /\ \E httpOk, json, hasCode, complete \in BOOLEAN, message \in {"", "provider_message"} :
       LET parsed == json /\ ~task[t].aborted
           msg == PolicyVerdict(httpOk, parsed, hasCode, message, complete)
       IN IF msg # "" THEN Throw(t, Err(msg)) ELSE Goto(t, "upload_fetch")
  /\ JobFrame(t)

\* await fetch(upload_host): !ok -> await uploadRes.text().catch(); ok -> the adapter
\* has the oss:// url, calls onStage('submitting') and awaits the submit fetch
UploadFetch(t) ==
  /\ job[t].pc = "upload_fetch"
  /\ IF task[t].aborted THEN Throw(t, AbortError)
     ELSE \/ Throw(t, Err("fetch_failed"))
          \/ Goto(t, "upload_errtext")
          \/ /\ task' = [task EXCEPT ![t] =
                           update(@, "submitting", "submitting_asr_job", now)]
             /\ job' = [job EXCEPT ![t] =
                          [@ EXCEPT !.pc = "submit_fetch", !.publicUrl = "oss_url"]]
  /\ JobFrame(t)

\* await uploadRes.text().catch(() => ''); throw new Error('upload failed ...')
UploadErrText(t) ==
  /\ job[t].pc = "upload_errtext"
  /\ Throw(t, Err("upload_http_error"))
  /\ JobFrame(t)

\* await fetch(asr/transcription, {signal})
SubmitFetch(t) ==
  /\ job[t].pc = "submit_fetch"
  /\ IF task[t].aborted THEN Throw(t, AbortError)
     ELSE \/ Throw(t, Err("fetch_failed"))
          \/ Goto(t, "submit_body")
  /\ JobFrame(t)

PollLoop_noCeiling(t, startTime) ==
  IF task[t].aborted THEN Throw(t, Err(CANCEL_MSG))
  ELSE /\ job' = [job EXCEPT ![t] =
                    [@ EXCEPT !.pc = "sleep", !.startTime = startTime,
                              !.timer = now + pollInterval]]
       /\ UNCHANGED task

\* while (Date.now() - startTime < maxWaitMs) { await sleep(pollInterval, signal) ...
\* the head of the poll loop: sleep's aborted check, then the timer is armed
PollLoop(t, startTime) ==
  IF now - startTime < maxWaitMs
  THEN IF task[t].aborted THEN Throw(t, Err(CANCEL_MSG))
       ELSE /\ job' = [job EXCEPT ![t] =
                         [@ EXCEPT !.pc = "sleep", !.startTime = startTime,
                                   !.timer = now + pollInterval]]
            /\ UNCHANGED task
  ELSE Throw(t, Err("asr_timeout"))

\* await submitRes.json(); checks; onStage('polling'); startTime; first loop test
SubmitBody(t) ==
  /\ job[t].pc = "submit_body"
  /\ IF task[t].aborted THEN Throw(t, AbortError)
     ELSE \/ Throw(t, Err("json_parse_error"))
          \/ \E message \in {"", "provider_message"} :
               Throw(t, Err(OrElse(message, "submit_failed")))
          \/ Throw(t, Err("no_asr_task_id"))
          \/ /\ task' = [task EXCEPT ![t] = update(@, "polling", "recognizing", now)]
             /\ job' = [job EXCEPT ![t] =
                          [@ EXCEPT !.pc = "sleep", !.startTime = now,
                                    !.timer = now + pollInterval]]
  /\ JobFrame(t)

\* sleep(ms, signal): the abort listener rejects, the timer resolves (and is
\* cleared); then await fetch(tasks/<id>, {signal}), one more status request
Sleep(t) ==
  /\ job[t].pc = "sleep"
  /\ IF task[t].aborted THEN Throw(t, Err(CANCEL_MSG))
     ELSE /\ now >= job[t].timer
          /\ job' = [job EXCEPT ![t] =
                       [@ EXCEPT !.pc = "poll_fetch", !.timer = 0, !.polls = @ + 1]]
          /\ UNCHANGED task
  /\ JobFrame(t)

PollFetch(t) ==
  /\ job[t].pc = "poll_fetch"
  /\ IF task[t].aborted THEN Throw(t, AbortError)
     ELSE \/ Throw(t, Err("fetch_failed"))
          \/ Goto(t, "poll_body")
  /\ JobFrame(t)

\* await queryRes.json(); code / SUCCEEDED / FAILED / anything else: next iteration
PollBody(t) ==
  /\ job[t].pc = "poll_body"
  /\ IF task[t].aborted THEN Throw(t, AbortError)
     ELSE \/ Throw(t, Err("json_parse_error"))
          \/ \E message \in {"", "provider_message"} :
               \/ Throw(t, Err(OrElse(message, "poll_failed")))
               \/ Throw(t, Err(OrElse(message, "asr_task_failed")))
          \/ Throw(t, Err("no_transcription_url"))
          \/ Stage(t, "fetching_result", "fetching_result", "result_fetch")
          \/ PollLoop(t, job[t].startTime)
  /\ JobFrame(t)

\* await fetch(transcriptionUrl, {signal}); if (!resultRes.ok) throw
ResultFetch(t) ==
  /\ job[t].pc = "result_fetch"
  /\ IF task[t].aborted THEN Throw(t, AbortError)
     ELSE \/ Throw(t, Err("fetch_failed"))
          \/ Throw(t, Err("result_http_error"))
          \/ Goto(t, "result_body")
  /\ JobFrame(t)

\* texts.filter(Boolean)
RECURSIVE FilterNonEmpty(_)
FilterNonEmpty(segs) ==
  IF segs = <<>> THEN <<>>
  ELSE IF Head(segs) = <<>> THEN FilterNonEmpty(Tail(segs))
  ELSE <<Head(segs)>> \o FilterNonEmpty(Tail(segs))

\* texts.join('\n')
RECURSIVE Join(_)
Join(segs) ==
  IF segs = <<>> THEN <<>>
  ELSE IF Len(segs) = 1 THEN Head(segs)
  ELSE Head(segs) \o <<"\n">> \o Join(Tail(segs))

\* per-segment text fields of the result document
SegTexts == {s \in Strs : Len(s) <= 1}

\* await resultRes.json(); texts; if (texts.length === 0) throw; return
ResultBody(t) ==
  /\ job[t].pc = "result_body"
  /\ IF task[t].aborted THEN Throw(t, AbortError)
     ELSE \/ Throw(t, Err("json_parse_error"))
          \/ \E n \in 0..MaxStrLen : \E segs \in [1..n -> SegTexts] :
               LET texts == FilterNonEmpty(segs)
               IN IF texts = <<>> THEN Throw(t, Err("empty_result"))
                  ELSE Return(t, Join(texts), job[t].publicUrl)
  /\ JobFrame(t)

\* ---------------------------------------------------------------------------
\* The task manager as a whole
\* ---------------------------------------------------------------------------
JobStep(t) ==
  \/ JobRejected(t)
  \/ DownloadFetch(t)
  \/ DownloadBody(t)
  \/ FfmpegPath(t)
  \/ Mkdtemp(t)
  \/ WriteFile(t)
  \/ FfmpegData(t)
  \/ Ffmpeg(t)
  \/ ReadFile(t)
  \/ Cleanup(t)
  \/ FlashFetch(t)
  \/ FlashBody(t)
  \/ PolicyFetch(t)
  \/ PolicyBody(t)
  \/ UploadFetch(t)
  \/ UploadErrText(t)
  \/ SubmitFetch(t)
  \/ SubmitBody(t)
  \/ Sleep(t)
  \/ PollFetch(t)
  \/ PollBody(t)
  \/ ResultFetch(t)
  \/ ResultBody(t)

\* The clock while a job is in the poll loop: it advances by the poll interval up
\* to the moment the timer of sleep is due (setTimeout(..., ms) fires then), or by the
\* whole ceiling while a status request is waiting for its answer (a slow provider).
PollTick ==
  /\ ~MicrotaskPending
  /\ \E t \in Ids :
       \/ /\ job[t].pc = "sleep"
          /\ now < job[t].timer
          /\ now + pollInterval <= MaxClock
          /\ now' = now + pollInterval
       \/ /\ job[t].pc = "poll_fetch"
          /\ now + maxWaitMs <= MaxClock
          /\ now' = now + maxWaitMs
  /\ resp' = NoResp
  /\ UNCHANGED <<ticks, captionTasks, task, job, asrCalls, nextId, cr, cn, lastCancel>>
  /\ UNCHANGED <<sessionVars, call, rq>>

\* create, cancel and the jobs, with the clock running through the poll loop
PollNext ==
  \/ PollTick
  \/ CreateBegin
  \/ CreateBody
  \/ CreateResolve
  \/ CreateMeta
  \/ CancelBegin
  \/ CancelFinish
  \/ \E t \in Ids : JobStep(t)

Next ==
  \/ Tick
  \/ CreateBegin
  \/ CreateBody
  \/ CreateResolve
  \/ CreateMeta
  \/ handleCaptionQuery
  \/ CancelBegin
  \/ CancelFinish
  \/ \E t \in Ids : JobStep(t)


\* ---------------------------------------------------------------------------
\* Douyin web session: getDouyinWebSession / refreshDouyinWebSession, called by
\* fetchUserVideos
\* ---------------------------------------------------------------------------
Callers == 1..NCallers

RefreshIds == 1..MaxRefresh

NoSession == [cookie |-> 0, expiresAt |-> 0]

NoLock == 0

\* a fetchUserVideos invocation and the handleUserVideos call around it:
\* attempt is the loop counter, awaiting the refresh it awaits (or awaited last),
\* cookie / expiresAt the session it was handed, requests the listing requests it
\* has sent, result what fetchUserVideos returned, answer what the handler sent
IdleCaller ==
  [pc |-> "idle", attempt |-> 0, awaiting |-> NoLock, cookie |-> 0, expiresAt |-> 0,
   requests |-> 0, result |-> "none", answer |-> "none"]

SessionInit ==
  /\ douyinWebSession = NoSession
  /\ douyinWebSessionLock = NoLock
  /\ refresh = [r \in RefreshIds |-> "none"]
  /\ nextRefresh = 1
  /\ fv = [c \in Callers |-> IdleCaller]

SessionValid_never(sess, n) == FALSE

SessionValid_noMargin(sess, n) == sess # NoSession /\ n < sess.expiresAt

\* getDouyinWebSession: douyinWebSession && Date.now() < douyinWebSession.expiresAt - 60_000
SessionValid(sess, n) == sess # NoSession /\ n < sess.expiresAt - SESSION_MARGIN_MS

JoinsLock_never(lock) == FALSE

\* getDouyinWebSession: if (douyinWebSessionLock) return douyinWebSessionLock
JoinsLock(lock) == lock # NoLock

\* the caller has its session, from the cache (awaited == NoLock) or from the refresh
\* it awaited: it sends the listing request and awaits the response
SendListing(cl, sess, awaited) ==
  [cl EXCEPT !.pc = "list_fetch", !.awaiting = awaited, !.cookie = sess.cookie,
             !.expiresAt = sess.expiresAt, !.requests = @ + 1]

Finish_raises(cl, result) ==
  [cl EXCEPT !.pc = "done", !.result = "raised", !.answer = "error"]

\* fetchUserVideos returns (videos.slice(0, count), or [] from a failure path or from
\* its catch block); handleUserVideos answers sendJson(res, 200, {videos, secUid})
Finish(cl, result) ==
  [cl EXCEPT !.pc = "done", !.result = result, !.answer = "videos"]

CatchSessionError_proceeds(cl) == SendListing(cl, NoSession, NoLock)

\* await getDouyinWebSession() rejected: fetchUserVideos' catch block returns []
CatchSessionError(cl) == Finish([cl EXCEPT !.awaiting = NoLock], "empty")

\* const session = await getDouyinWebSession(), called by caller c (record cl) when
\* the cache holds sess: cache hit, join the refresh in flight, or start a refresh
getDouyinWebSession(c, cl, sess) ==
  IF SessionValid(sess, now)
  THEN /\ fv' = [fv EXCEPT ![c] = SendListing(cl, sess, NoLock)]
       /\ UNCHANGED <<douyinWebSessionLock, refresh, nextRefresh>>
  ELSE IF JoinsLock(douyinWebSessionLock)
  THEN /\ fv' = [fv EXCEPT ![c] =
                   [cl EXCEPT !.pc = "await_session", !.awaiting = douyinWebSessionLock]]
       /\ UNCHANGED <<douyinWebSessionLock, refresh, nextRefresh>>
  ELSE /\ nextRefresh <= MaxRefresh
       /\ refresh' = [refresh EXCEPT ![nextRefresh] = "fetch1"]
       /\ douyinWebSessionLock' = nextRefresh
       /\ nextRefresh' = nextRefresh + 1
       /\ fv' = [fv EXCEPT ![c] =
                   [cl EXCEPT !.pc = "await_session", !.awaiting = nextRefresh]]

\* handleUserVideos answers {videos: [], secUid: null} without calling fetchUserVideos:
\* no url, no Douyin link, or no sec_uid in the resolved link
UserVideosEarly(c) ==
  /\ fv[c].pc = "idle"
  /\ fv' = [fv EXCEPT ![c] = [@ EXCEPT !.pc = "done", !.answer = "videos_null_secUid"]]
  /\ UNCHANGED <<douyinWebSession, douyinWebSessionLock, refresh, nextRefresh, taskVars, call, rq>>

\* handleUserVideos calls fetchUserVideos: the a_bogus generator is missing (throw,
\* caught, []), or the first iteration of the attempt loop calls getDouyinWebSession
FvStart(c) ==
  /\ fv[c].pc = "idle"
  /\ \/ /\ fv' = [fv EXCEPT ![c] = Finish(@, "empty")]
        /\ UNCHANGED <<douyinWebSessionLock, refresh, nextRefresh>>
     \/ getDouyinWebSession(c, fv[c], douyinWebSession)
  /\ UNCHANGED <<douyinWebSession, taskVars, call, rq>>

RefreshStep_clearsLock(r) ==
  /\ refresh[r] \in {"fetch1", "text1", "fetch2"}
  /\ refresh' = [refresh EXCEPT ![r] =
                   CASE refresh[r] = "fetch1" -> "text1"
                     [] refresh[r] = "text1" -> "fetch2"
                     [] refresh[r] = "fetch2" -> "text2"]
  /\ douyinWebSessionLock' = NoLock
  /\ UNCHANGED <<douyinWebSession, nextRefresh, fv, taskVars, call, rq>>

\* refreshDouyinWebSession: a step that neither fails nor is the last one
RefreshStep(r) ==
  /\ refresh[r] \in {"fetch1", "text1", "fetch2"}
  /\ refresh' = [refresh EXCEPT ![r] =
                   CASE refresh[r] = "fetch1" -> "text1"
                     [] refresh[r] = "text1" -> "fetch2"
                     [] refresh[r] = "fetch2" -> "text2"]
  /\ UNCHANGED <<douyinWebSession, douyinWebSessionLock, nextRefresh, fv, taskVars, call, rq>>

\* refreshDouyinWebSession: return {cookie, expiresAt: Date.now() + ttlMs} of run r
NewSession(r, n) == [cookie |-> r, expiresAt |-> n + ttlMs]

\* refreshDouyinWebSession returns; the lock's async body stores the session; the
\* first caller's finally clears the lock; every caller awaiting this promise
\* resumes with the session and sends its listing request
RefreshDone(r) ==
  /\ refresh[r] = "text2"
  /\ refresh' = [refresh EXCEPT ![r] = "done"]
  /\ douyinWebSession' = NewSession(r, now)
  /\ douyinWebSessionLock' = NoLock
  /\ fv' = [c \in Callers |->
              IF fv[c].pc = "await_session" /\ fv[c].awaiting = r
              THEN SendListing(fv[c], NewSession(r, now), r) ELSE fv[c]]
  /\ UNCHANGED <<nextRefresh, taskVars, call, rq>>

\* a step of refreshDouyinWebSession throws (fetch, missing nonce, signature, body):
\* the promise rejects, the first caller's finally clears the lock, and every
\* caller awaiting it ends in fetchUserVideos' catch, which returns []
RefreshFail(r) ==
  /\ refresh[r] \in {"fetch1", "text1", "fetch2", "text2"}
  /\ refresh' = [refresh EXCEPT ![r] = "failed"]
  /\ douyinWebSessionLock' = NoLock
  /\ fv' = [c \in Callers |->
              IF fv[c].pc = "await_session" /\ fv[c].awaiting = r
              THEN CatchSessionError(fv[c]) ELSE fv[c]]
  /\ UNCHANGED <<douyinWebSession, nextRefresh, taskVars, call, rq>>

MayRetry_always(attempt) == TRUE

\* fetchUserVideos: if (attempt === 0) { douyinWebSession = null; continue; }
MayRetry(attempt) == attempt = 0

\* a structural failure of the listing request: on the first attempt the cached
\* session is dropped and the loop calls getDouyinWebSession again, else return []
ListingFailed(c) ==
  IF MayRetry(fv[c].attempt)
  THEN /\ douyinWebSession' = NoSession
       /\ getDouyinWebSession(c, [fv[c] EXCEPT !.attempt = 1], NoSession)
  ELSE /\ fv' = [fv EXCEPT ![c] = Finish(@, "empty")]
       /\ UNCHANGED <<douyinWebSession, douyinWebSessionLock, refresh, nextRefresh>>

\* await fetch(apiUrl, ...): throws, !res.ok, or goes on to await res.json()
ListFetch(c) ==
  /\ fv[c].pc = "list_fetch"
  /\ \/ /\ fv' = [fv EXCEPT ![c] = Finish(@, "empty")]
        /\ UNCHANGED <<douyinWebSession, douyinWebSessionLock, refresh, nextRefresh>>
     \/ ListingFailed(c)
     \/ /\ fv' = [fv EXCEPT ![c] = [@ EXCEPT !.pc = "list_json"]]
        /\ UNCHANGED <<douyinWebSession, douyinWebSessionLock, refresh, nextRefresh>>
  /\ UNCHANGED <<taskVars, call, rq>>

\* await res.json(): unparsable, unexpected shape or empty list (ListingFailed);
\* or the payload passes the shape checks and mapping an entry throws (a null
\* entry: item.statistics), which the catch block turns into return [] with the
\* cached session kept and no retry; or the videos
ListJson(c) ==
  /\ fv[c].pc = "list_json"
  /\ \/ ListingFailed(c)
     \/ /\ fv' = [fv EXCEPT ![c] = Finish(@, "empty")]
        /\ UNCHANGED <<douyinWebSession, douyinWebSessionLock, refresh, nextRefresh>>
     \/ /\ fv' = [fv EXCEPT ![c] = Finish(@, "videos")]
        /\ UNCHANGED <<douyinWebSession, douyinWebSessionLock, refresh, nextRefresh>>
  /\ UNCHANGED <<taskVars, call, rq>>

\* the clock advances by the expiry margin or up to the edge of the validity window
SessionTick ==
  /\ ticks < MaxTicks
  /\ \E d \in {SESSION_MARGIN_MS, ttlMs - SESSION_MARGIN_MS} : now' = now + d
  /\ ticks' = ticks + 1
  /\ UNCHANGED <<captionTasks, task, job, asrCalls, nextId, cr, cn, resp, lastCancel>>
  /\ UNCHANGED <<sessionVars, call, rq>>

SessionNext ==
  \/ SessionTick
  \/ \E c \in Callers : UserVideosEarly(c) \/ FvStart(c) \/ ListFetch(c) \/ ListJson(c)
  \/ \E r \in RefreshIds : RefreshStep(r) \/ RefreshDone(r) \/ RefreshFail(r)

\* ---------------------------------------------------------------------------
\* Pure functions: assertSafeExternalHttpUrl, the flash adapter's verdict, the
\* ordering and truncation of the listed videos
\* ---------------------------------------------------------------------------
\* the URL strings the guard is applied to
Hrefs ==
  {"http://127.0.0.1/x", "http://169.254.169.254/", "http://localhost/",
   "http://0.0.0.0/", "http://[::1]/", "http://printer.local/", "http://local/",
   "http://10.0.0.1/", "http://192.168.1.1/", "http://172.16.0.1/",
   "http://127.0.0.2/", "https://example.com/v.mp4", "HTTPS://EXAMPLE.COM/",
   "ftp://example.com/f", "file:///etc/passwd", "not a url"}

Url(protocol, hostname) == [valid |-> TRUE, protocol |-> protocol, hostname |-> hostname]

\* new URL(url): protocol and hostname (as its dot-separated labels) of the URL
\* strings above, lower-cased by the parser; valid is FALSE when new URL throws
ParseUrl(href) ==
  CASE href = "http://127.0.0.1/x" -> Url("http:", <<"127", "0", "0", "1">>)
    [] href = "http://169.254.169.254/" -> Url("http:", <<"169", "254", "169", "254">>)
    [] href = "http://localhost/" -> Url("http:", <<"localhost">>)
    [] href = "http://0.0.0.0/" -> Url("http:", <<"0", "0", "0", "0">>)
    [] href = "http://[::1]/" -> Url("http:", <<"[::1]">>)
    [] href = "http://printer.local/" -> Url("http:", <<"printer", "local">>)
    [] href = "http://local/" -> Url("http:", <<"local">>)
    [] href = "http://10.0.0.1/" -> Url("http:", <<"10", "0", "0", "1">>)
    [] href = "http://192.168.1.1/" -> Url("http:", <<"192", "168", "1", "1">>)
    [] href = "http://172.16.0.1/" -> Url("http:", <<"172", "16", "0", "1">>)
    [] href = "http://127.0.0.2/" -> Url("http:", <<"127", "0", "0", "2">>)
    [] href = "https://example.com/v.mp4" -> Url("https:", <<"example", "com">>)
    [] href = "HTTPS://EXAMPLE.COM/" -> Url("https:", <<"example", "com">>)
    [] href = "ftp://example.com/f" -> Url("ftp:", <<"example", "com">>)
    [] href = "file:///etc/passwd" -> Url("file:", <<>>)
    [] href = "https://v.douyin.com/abc/" -> Url("https:", <<"v", "douyin", "com">>)
    [] href = "https://www.iesdouyin.com/share/video/1" -> Url("https:", <<"www", "iesdouyin", "com">>)
    [] href = "https://evil.example/video/1" -> Url("https:", <<"evil", "example">>)
    [] href = "https://notdouyin.com/" -> Url("https:", <<"notdouyin", "com">>)
    [] href = "ftp://douyin.com/x" -> Url("ftp:", <<"douyin", "com">>)
    [] OTHER -> [valid |-> FALSE, protocol |-> "", hostname |-> <<>>]

\* host.endsWith('.local')
EndsWithLocal(host) == Len(host) >= 2 /\ host[Len(host)] = "local"

UnsafeHost_none(host) == FALSE

\* assertSafeExternalHttpUrl: the host test of lines 216-222
UnsafeHost(host) ==
  \/ host = <<"localhost">>
  \/ host = <<"0", "0", "0", "0">>
  \/ host = <<"127", "0", "0", "1">>
  \/ host = <<"::1">>
  \/ EndsWithLocal(host)

\* assertSafeExternalHttpUrl(url): "ok" when it returns the parsed URL, else the
\* error it throws
assertSafeExternalHttpUrl(href) ==
  LET parsed == ParseUrl(href) IN
  IF ~parsed.valid THEN "bad_url_format"
  ELSE IF parsed.protocol # "http:" /\ parsed.protocol # "https:" THEN "http_https_only"
  ELSE IF UnsafeHost(parsed.hostname) THEN "unsafe_link"
  ELSE "ok"

CallAssertSafeExternalHttpUrl ==
  /\ call = NoCall
  /\ \E href \in Hrefs :
       call' = [fn |-> "assertSafeExternalHttpUrl", arg |-> href,
                ret |-> assertSafeExternalHttpUrl(href)]
  /\ UNCHANGED <<taskVars, sessionVars, rq>>

\* transcribeWithDoubaoBigasrFlash from the response on: what it throws, or the
\* transcript it returns
FlashOutcome(httpOk, statusNum, statusMessage, bodyMessage, bodyError, text) ==
  LET msg == FlashVerdict(httpOk, statusNum, statusMessage, bodyMessage, bodyError, text) IN
  IF msg # "" THEN [threw |-> TRUE, error |-> msg, transcript |-> <<>>]
  ELSE [threw |-> FALSE, error |-> "", transcript |-> Trim(text)]

\* statusNum: Number(statusCode || '0'), 0 when the header is absent (or NaN)
CallFlashVerdict ==
  /\ call = NoCall
  /\ \E httpOk \in BOOLEAN, statusNum \in {0, FLASH_OK, FLASH_OK + 1},
        statusMessage \in HeaderMessages, bodyMessage \in BodyMessages,
        bodyError \in BodyErrors, text \in Strs :
       call' = [fn |-> "transcribeWithDoubaoBigasrFlash",
                arg |-> [httpOk |-> httpOk, statusNum |-> statusNum,
                         statusMessage |-> statusMessage, bodyMessage |-> bodyMessage,
                         bodyError |-> bodyError, text |-> text],
                ret |-> FlashOutcome(httpOk, statusNum, statusMessage, bodyMessage,
                                     bodyError, text)]
  /\ UNCHANGED <<taskVars, sessionVars, rq>>

\* the mapped entries of aweme_list: awemeId (0 when missing) and stats.diggCount
Videos == [awemeId : 0..2, diggCount : 0..MaxDigg]

VideoLists == UNION {[1..n -> Videos] : n \in 0..MaxVideos}

\* .filter((v) => v.awemeId)
RECURSIVE FilterValid(_)
FilterValid(vs) ==
  IF vs = <<>> THEN <<>>
  ELSE IF Head(vs).awemeId = 0 THEN FilterValid(Tail(vs))
  ELSE <<Head(vs)>> \o FilterValid(Tail(vs))

\* v goes behind every entry whose diggCount is not smaller
RECURSIVE InsertByDigg(_, _)
InsertByDigg(v, sorted) ==
  IF sorted = <<>> THEN <<v>>
  ELSE IF Head(sorted).diggCount >= v.diggCount
    THEN <<Head(sorted)>> \o InsertByDigg(v, Tail(sorted))
  ELSE <<v>> \o sorted

SortByDigg_unsorted(vs) == vs

\* videos.sort((a, b) => (b.stats.diggCount || 0) - (a.stats.diggCount || 0)): stable
RECURSIVE SortByDigg(_)
SortByDigg(vs) ==
  IF vs = <<>> THEN <<>>
  ELSE InsertByDigg(vs[Len(vs)], SortByDigg(SubSeq(vs, 1, Len(vs) - 1)))

\* videos.slice(0, count), count >= 0
Slice(vs, count) == SubSeq(vs, 1, IF count < Len(vs) THEN count ELSE Len(vs))

\* handleUserVideos: Math.min(Math.max(parseInt(countStr, 10) || 10, 1), 50); parsed
\* is 0 for NaN
ClampCount(parsed) ==
  LET n == IF parsed = 0 THEN 10 ELSE parsed
      lo == IF n > 1 THEN n ELSE 1
  IN IF lo < 50 THEN lo ELSE 50

\* fetchUserVideos on a well-formed listing: filter, sort, slice
ListedVideos(vs, count) == Slice(SortByDigg(FilterValid(vs)), count)

CallListedVideos ==
  /\ call = NoCall
  /\ \E vs \in VideoLists, parsed \in {-1, 0, 1, 2, 60} :
       call' = [fn |-> "fetchUserVideos",
                arg |-> [videos |-> vs, count |-> ClampCount(parsed)],
                ret |-> ListedVideos(vs, ClampCount(parsed))]
  /\ UNCHANGED <<taskVars, sessionVars, rq>>

PureNext ==
  \/ CallAssertSafeExternalHttpUrl
  \/ CallFlashVerdict
  \/ CallListedVideos

\* ---------------------------------------------------------------------------
\* handleResolve (the platform-domain check, resolveRedirects) and the two
\* transcription proxy endpoints
\* ---------------------------------------------------------------------------

\* resolveRedirects(startUrl, maxHops = 6)
RESOLVE_MAX_HOPS == 6

\* Links a caller can supply (after extractUrlFromText / normalizeUrl), every one
\* already in the form URL.toString() gives it; the last one does not parse.
WebUrls ==
  {"https://v.douyin.com/abc/", "https://www.iesdouyin.com/share/video/1",
   "https://evil.example/video/1", "https://notdouyin.com/", "ftp://douyin.com/x",
   "http://127.0.0.1/x", "https://not a url"}

\* Location headers a remote server can answer with
Locations == WebUrls \ {"https://not a url"}

\* host === 'douyin.com' || host.endsWith('.douyin.com'), on the labels of the host
MatchesDomain(host, name) ==
  /\ Len(host) >= 2
  /\ host[Len(host) - 1] = name
  /\ host[Len(host)] = "com"

safeUrlHost(host) == MatchesDomain(host, "douyin") \/ MatchesDomain(host, "iesdouyin")

\* assertSafeDouyinUrl(url): "ok" when it returns the parsed URL, else the error
\* it throws
assertSafeDouyinUrl(href) ==
  LET parsed == ParseUrl(href) IN
  IF ~parsed.valid THEN "bad_url_format"
  ELSE IF parsed.protocol # "http:" /\ parsed.protocol # "https:" THEN "http_https_only"
  ELSE IF ~safeUrlHost(parsed.hostname) THEN "douyin_links_only"
  ELSE "ok"

\* extracted: the caller's link; current, i: locals of resolveRedirects; requests:
\* fetch calls of this request so far; requested: URL of the latest fetch; origin:
\* where that URL came from ("caller": the caller's link, "redirect": a location
\* header, "fixed": an endpoint written in the code, "provider": a field of a
\* provider's answer); checked: URL the latest safety check accepted; resolved: the
\* URL ids are extracted from; startTime, timer, polls: the poll loop of
\* transcribeWithParaformer; code: HTTP status of the answer these steps send
\* (0: none yet).
IdleRq ==
  [handler |-> "none", pc |-> "idle", extracted |-> "", current |-> "", i |-> 0,
   requests |-> 0, requested |-> "", origin |-> "", checked |-> "", resolved |-> "",
   startTime |-> 0, timer |-> 0, polls |-> 0, code |-> 0]

\* resolveRedirects returned url, or threw and handleResolve fell back to url: in
\* the same step handleResolve answers 200 with resolvedUrl: url
Resolved(r, url) == [r EXCEPT !.pc = "done", !.resolved = url, !.code = 200]

\* fetch(url): one more request of this handler invocation
Fetch(r, pc, url, origin) ==
  [r EXCEPT !.pc = pc, !.requested = url, !.origin = origin, !.requests = @ + 1]

\* sendJson(res, code, ...) (or res.end) ends the handler
Answer(r, code) == [r EXCEPT !.pc = "done", !.code = code, !.timer = 0]

ResolveLoop_noRecheck(r) ==
  IF r.i < RESOLVE_MAX_HOPS
  THEN Fetch(r, "hop", r.current, IF r.i = 0 THEN "caller" ELSE "redirect")
  ELSE Resolved(r, r.current)

\* One pass through the head of the loop of resolveRedirects, up to the await of
\* fetch: the safety check of current, then the request; past the hop limit the
\* function returns current.
ResolveLoop(r) ==
  IF r.i < RESOLVE_MAX_HOPS
  THEN IF assertSafeDouyinUrl(r.current) = "ok"
       THEN Fetch([r EXCEPT !.checked = r.current], "hop", r.current,
                  IF r.i = 0 THEN "caller" ELSE "redirect")
       ELSE Resolved(r, r.extracted)
  ELSE Resolved(r, r.current)

\* handleResolve receives a link: assertSafeDouyinUrl(extracted) (it answers 400
\* when that throws), then the first pass of resolveRedirects(extracted)
ResolveStart ==
  /\ rq.pc \in {"idle", "done"}
  /\ \E url \in WebUrls :
       LET r == [IdleRq EXCEPT !.handler = "resolve", !.extracted = url,
                               !.current = url] IN
       rq' = IF assertSafeDouyinUrl(url) = "ok"
             THEN ResolveLoop([r EXCEPT !.checked = url])
             ELSE Answer(r, 400)
  /\ UNCHANGED <<taskVars, sessionVars, call>>

\* The fetch of resolveRedirects settles: it throws, or answers with a redirect
\* (with or without a location header) or with another status
ResolveHop ==
  /\ rq.handler = "resolve" /\ rq.pc = "hop"
  /\ \/ rq' = Resolved(rq, rq.extracted)
     \/ \E location \in Locations :
          rq' = ResolveLoop([rq EXCEPT !.current = location, !.i = @ + 1])
     \/ rq' = Resolved(rq, rq.current)
  /\ UNCHANGED <<taskVars, sessionVars, call>>

\* handleTranscribe: fetch(videoUrl) with the url parameter as it came
TranscribeStart ==
  /\ rq.pc \in {"idle", "done"}
  /\ \E url \in WebUrls :
       rq' = Fetch([IdleRq EXCEPT !.handler = "transcribe", !.extracted = url,
                                  !.current = url], "download", url, "caller")
  /\ UNCHANGED <<taskVars, sessionVars, call>>

\* handleTranscribe, await fetch(videoUrl): it throws (catch: 500), answers !ok
\* (400), or the handler goes on to await videoRes.arrayBuffer()
TranscribeDownload ==
  /\ rq.handler = "transcribe" /\ rq.pc = "download"
  /\ \/ rq' = Answer(rq, 500)
     \/ rq' = Answer(rq, 400)
     \/ rq' = [rq EXCEPT !.pc = "body"]
  /\ UNCHANGED <<taskVars, sessionVars, call>>

\* handleTranscribe, await videoRes.arrayBuffer(): the body is sent, or reading it
\* threw
TranscribeBody ==
  /\ rq.handler = "transcribe" /\ rq.pc = "body"
  /\ \E code \in {200, 500} : rq' = Answer(rq, code)
  /\ UNCHANGED <<taskVars, sessionVars, call>>

\* The endpoints of DashScope written in the code
UPLOADS_URL == "https://dashscope.aliyuncs.com/api/v1/uploads?action=getPolicy&model=paraformer-v2"

TRANSCRIPTION_URL == "https://dashscope.aliyuncs.com/api/v1/services/audio/asr/transcription"

TASKS_URL == "https://dashscope.aliyuncs.com/api/v1/tasks/1"

\* policy.upload_host of the upload policy, transcription_url of a SUCCEEDED task:
\* whatever the provider answers
UploadHosts == {"https://oss.example/up"}

TranscriptionUrls == {"https://oss.example/result", "http://127.0.0.1/result"}

\* handleParaformerTranscribe: whatever transcribeWithParaformer throws is answered
\* with 500 by the catch block
PfThrow == rq' = Answer(rq, 500)

\* handleParaformerTranscribe: transcribeWithParaformer checks the url with
\* assertSafeExternalHttpUrl before it downloads it.  The poll loop needs the
\* clock to run through its ceiling.
ParaformerStart ==
  /\ rq.pc \in {"idle", "done"}
  /\ now + maxWaitMs + pollInterval <= MaxClock
  /\ \E url \in WebUrls :
       LET r == [IdleRq EXCEPT !.handler = "paraformer", !.extracted = url,
                               !.current = url] IN
       rq' = IF assertSafeExternalHttpUrl(url) = "ok"
             THEN Fetch([r EXCEPT !.checked = url], "download", url, "caller")
             ELSE Answer(r, 500)
  /\ UNCHANGED <<taskVars, sessionVars, call>>

\* await fetch(safeUrl): throws or !ok, or on to await videoRes.arrayBuffer()
PfDownload ==
  /\ rq.handler = "paraformer" /\ rq.pc = "download"
  /\ \/ PfThrow
     \/ rq' = [rq EXCEPT !.pc = "body"]
  /\ UNCHANGED <<taskVars, sessionVars, call>>

\* await videoRes.arrayBuffer(); getDashscopeUploadPolicy: fetch(uploads)
PfBody ==
  /\ rq.handler = "paraformer" /\ rq.pc = "body"
  /\ \/ PfThrow
     \/ rq' = Fetch(rq, "policy_fetch", UPLOADS_URL, "fixed")
  /\ UNCHANGED <<taskVars, sessionVars, call>>

\* await fetch(uploads): throws, or on to await res.json().catch(() => null)
PfPolicyFetch ==
  /\ rq.handler = "paraformer" /\ rq.pc = "policy_fetch"
  /\ \/ PfThrow
     \/ rq' = [rq EXCEPT !.pc = "policy_json"]
  /\ UNCHANGED <<taskVars, sessionVars, call>>

\* the policy has been read: !res.ok, data.code or an incomplete policy throw; else
\* uploadToDashscopeTemporaryOss sends fetch(policy.upload_host)
PfPolicyJson ==
  /\ rq.handler = "paraformer" /\ rq.pc = "policy_json"
  /\ \/ PfThrow
     \/ \E host \in UploadHosts : rq' = Fetch(rq, "upload", host, "provider")
  /\ UNCHANGED <<taskVars, sessionVars, call>>

\* await fetch(policy.upload_host): throws; !ok: await uploadRes.text(); else the
\* submit request
PfUpload ==
  /\ rq.handler = "paraformer" /\ rq.pc = "upload"
  /\ \/ PfThrow
     \/ rq' = [rq EXCEPT !.pc = "upload_text"]
     \/ rq' = Fetch(rq, "submit_fetch", TRANSCRIPTION_URL, "fixed")
  /\ UNCHANGED <<taskVars, sessionVars, call>>

\* await uploadRes.text().catch(() => ''), then throw
PfUploadText ==
  /\ rq.handler = "paraformer" /\ rq.pc = "upload_text"
  /\ PfThrow
  /\ UNCHANGED <<taskVars, sessionVars, call>>

\* await fetch(transcription): throws, or on to await submitRes.json()
PfSubmitFetch ==
  /\ rq.handler = "paraformer" /\ rq.pc = "submit_fetch"
  /\ \/ PfThrow
     \/ rq' = [rq EXCEPT !.pc = "submit_json"]
  /\ UNCHANGED <<taskVars, sessionVars, call>>

\* The head of the poll loop: while (Date.now() - startTime < maxWaitMs), then
\* sleep(pollInterval, undefined) arms its timer; past the ceiling the timeout error
PfPollLoop(r, startTime) ==
  IF now - startTime < maxWaitMs
  THEN [r EXCEPT !.pc = "sleep", !.startTime = startTime, !.timer = now + pollInterval]
  ELSE Answer(r, 500)

\* await submitRes.json(): unparsable, refused or without task id; else startTime
\* and the first test of the loop
PfSubmitJson ==
  /\ rq.handler = "paraformer" /\ rq.pc = "submit_json"
  /\ \/ PfThrow
     \/ rq' = PfPollLoop(rq, now)
  /\ UNCHANGED <<taskVars, sessionVars, call>>

\* The clock while the handler sleeps: it advances to the moment the timer is due
PfTick ==
  /\ rq.pc = "sleep"
  /\ now < rq.timer
  /\ now + pollInterval <= MaxClock
  /\ now' = now + pollInterval
  /\ UNCHANGED <<ticks, captionTasks, task, job, asrCalls, nextId, cr, cn, resp, lastCancel>>
  /\ UNCHANGED <<sessionVars, call, rq>>

\* the timer of sleep fires: fetch(tasks/<taskId>)
PfSleep ==
  /\ rq.handler = "paraformer" /\ rq.pc = "sleep"
  /\ now >= rq.timer
  /\ rq' = Fetch([rq EXCEPT !.timer = 0, !.polls = @ + 1], "poll_fetch", TASKS_URL, "fixed")
  /\ UNCHANGED <<taskVars, sessionVars, call>>

\* await fetch(tasks/<taskId>): throws, or on to await queryRes.json()
PfPollFetch ==
  /\ rq.handler = "paraformer" /\ rq.pc = "poll_fetch"
  /\ \/ PfThrow
     \/ rq' = [rq EXCEPT !.pc = "poll_json"]
  /\ UNCHANGED <<taskVars, sessionVars, call>>

\* await queryRes.json(): unparsable, data.code, SUCCEEDED without url or FAILED
\* throw; SUCCEEDED sends fetch(transcriptionUrl); any other status goes round
PfPollJson ==
  /\ rq.handler = "paraformer" /\ rq.pc = "poll_json"
  /\ \/ PfThrow
     \/ \E url \in TranscriptionUrls : rq' = Fetch(rq, "result_fetch", url, "provider")
     \/ rq' = PfPollLoop(rq, rq.startTime)
  /\ UNCHANGED <<taskVars, sessionVars, call>>

\* await fetch(transcriptionUrl): throws or !ok, or on to await resultRes.json()
PfResultFetch ==
  /\ rq.handler = "paraformer" /\ rq.pc = "result_fetch"
  /\ \/ PfThrow
     \/ rq' = [rq EXCEPT !.pc = "result_json"]
  /\ UNCHANGED <<taskVars, sessionVars, call>>

\* await resultRes.json(): unparsable or without text throws; else the transcript
\* is answered with 200
PfResultJson ==
  /\ rq.handler = "paraformer" /\ rq.pc = "result_json"
  /\ \E code \in {200, 500} : rq' = Answer(rq, code)
  /\ UNCHANGED <<taskVars, sessionVars, call>>

HandlersNext ==
  \/ ResolveStart
  \/ ResolveHop
  \/ TranscribeStart
  \/ TranscribeDownload
  \/ TranscribeBody
  \/ ParaformerStart
  \/ PfDownload
  \/ PfBody
  \/ PfPolicyFetch
  \/ PfPolicyJson
  \/ PfUpload
  \/ PfUploadText
  \/ PfSubmitFetch
  \/ PfSubmitJson
  \/ PfTick
  \/ PfSleep
  \/ PfPollFetch
  \/ PfPollJson
  \/ PfResultFetch
  \/ PfResultJson

\* ---------------------------------------------------------------------------
\* Specifications
\* ---------------------------------------------------------------------------
vars == <<taskVars, sessionVars, call, rq>>

Init == TaskInit /\ SessionInit /\ call = NoCall /\ rq = IdleRq

\* the caption task manager
Spec == Init /\ [][Next]_vars

\* the task manager with a clock that runs through the whole poll loop
SpecPoll == Init /\ [][PollNext]_vars

\* the same, with the scheduling of the event loop: a continuation that is ready
\* runs, every request, file operation and subprocess settles, timers fire
SpecPollFair ==
  /\ SpecPoll
  /\ WF_vars(PollTick)
  /\ \A t \in Ids : WF_vars(JobStep(t))

\* the session cache and its callers
SpecSession == Init /\ [][SessionNext]_vars

\* the pure functions, applied to every input of their bounded domains
SpecPure == Init /\ [][PureNext]_vars

\* The link handlers alone
SpecHandlers == Init /\ [][HandlersNext]_vars


\* ---------------------------------------------------------------------------
\* Claims about the caption task manager (specification Spec)
\* ---------------------------------------------------------------------------
IsTerminal(st) == st \in {"SUCCESS", "FAILURE", "CANCELLED"}

StatusRank(st) ==
  CASE st = "NONE" -> 0
    [] st = "WAITING" -> 1
    [] st = "RUNNING" -> 2
    [] OTHER -> 3

IsExpired(tk, n) == IsTerminal(tk.status) /\ n - tk.updatedAt > CAPTION_TASK_TTL_MS

\* C1: the status of a task never moves backwards in the order Waiting, Running,
\* {Success, Failure, Cancelled}, and a status of Success, Failure or Cancelled is
\* never changed by any later step (stage callback, job completion or failure
\* handler, cancel request).
C1_StatusMonotonic ==
  [][\A t \in Ids :
       /\ StatusRank(task'[t].status) >= StatusRank(task[t].status)
       /\ IsTerminal(task[t].status) => task'[t].status = task[t].status]_vars

\* C2: when cancel completes on a registered task that is Waiting or Running, that
\* one step signals the cancellation handle and sets status Cancelled, stage
\* cancelled and the canonical cancellation error, and it answers with the
\* snapshot of the task as it then is, showing Cancelled / cancelled.
C2_CancelSignalsAndMarks ==
  [][(cn.pc = "body" /\ cn'.pc = "idle" /\ resp'.op = "cancel"
        /\ resp'.taskId \in captionTasks
        /\ task[resp'.taskId].status \in {"WAITING", "RUNNING"})
     => LET t == resp'.taskId IN
        /\ task'[t].aborted
        /\ task'[t].status = "CANCELLED"
        /\ task'[t].stage = "cancelled"
        /\ task'[t].error = CANCEL_MSG
        /\ resp'.code = 200
        /\ resp'.body = snapshotCaptionTask(task'[t])
        /\ resp'.body.status = "CANCELLED"
        /\ resp'.body.stage = "cancelled"]_vars

\* C2 witness: cancel has just answered 200 with a Cancelled snapshot written in this
\* step for a task whose job is still suspended in the adapter, the handle signalled.
C2_Witness ==
  /\ resp.op = "cancel"
  /\ resp.code = 200
  /\ resp.body.status = "CANCELLED"
  /\ resp.body.updatedAt = now
  /\ task[resp.taskId].aborted
  /\ job[resp.taskId].pc \in {"dl_fetch", "sleep", "ffmpeg"}

\* C3: cancel is idempotent: a cancel answered with a snapshot, followed by another
\* cancel of the same task, gets the same snapshot both times.
C3_CancelTwiceSameSnapshot ==
  [][(cn.pc = "body" /\ cn'.pc = "idle" /\ resp'.op = "cancel" /\ resp'.code = 200
        /\ lastCancel[resp'.taskId] # NoSnap)
     => resp'.body = lastCancel[resp'.taskId]]_vars

\* The part of C3 that is about the handler alone: a cancel that finds the task
\* in Success, Failure or Cancelled changes no field of it and answers with its
\* snapshot.
CancelOnTerminalChangesNothing ==
  [][(cn.pc = "body" /\ cn'.pc = "idle" /\ resp'.op = "cancel"
        /\ resp'.taskId \in captionTasks
        /\ IsTerminal(task[resp'.taskId].status))
     => /\ task' = task
        /\ resp'.code = 200
        /\ resp'.body = snapshotCaptionTask(task[resp'.taskId])]_vars

\* C4 as stated: whenever create decides on metadata with a non-empty caption, it
\* answers with a task in Success / done whose transcript is that caption, and no
\* ASR adapter is invoked for the task.
C4_CaptionYieldsSuccess ==
  (resp.op = "create" /\ IsSet(resp.caption) /\ resp.caption # <<>>)
  => /\ resp.code = 200
     /\ resp.body.status = "SUCCESS"
     /\ resp.body.stage = "done"
     /\ resp.body.transcript = resp.caption
     /\ asrCalls[resp.taskId] = 0

\* C4 amended: whenever create decides on metadata whose caption is non-empty
\* after trimming white space, it answers with a task in Success / done whose
\* transcript is the trimmed caption; such a task is Success / done in every state
\* from its creation on, has no detached job and no ASR adapter invocation.
C4_TrimmedCaptionYieldsSuccess ==
  /\ (resp.op = "create" /\ IsSet(resp.caption) /\ Trim(resp.caption) # <<>>)
     => /\ resp.code = 200
        /\ resp.body.status = "SUCCESS"
        /\ resp.body.stage = "done"
        /\ resp.body.transcript = Trim(resp.caption)
  /\ \A t \in Ids :
       (IsSet(job[t].caption) /\ Trim(job[t].caption) # <<>>)
       => /\ task[t].status = "SUCCESS"
          /\ task[t].stage = "done"
          /\ task[t].transcript = Trim(job[t].caption)
          /\ job[t].pc = "none"
          /\ asrCalls[t] = 0

\* C4 witness: a task created from a caption with surrounding white space, after
\* time has passed and a cancel request has been answered for it.
C4_Witness ==
  \E t \in Ids :
    /\ IsSet(job[t].caption)
    /\ Trim(job[t].caption) # <<>>
    /\ job[t].caption # Trim(job[t].caption)
    /\ task[t].status = "SUCCESS"
    /\ now > task[t].createdAt
    /\ lastCancel[t] # NoSnap

\* C5: when create answers 200 for a video without usable caption, the snapshot
\* is Waiting or Running and is the task as it is then, exactly one adapter has
\* been invoked, and the detached job is still suspended on its first await: the
\* media download (or the adapter's rejected promise) has not completed.
C5_CreateDoesNotWaitForAsr ==
  (resp.op = "create" /\ resp.code = 200
     /\ ~(IsSet(resp.caption) /\ Trim(resp.caption) # <<>>))
  => /\ resp.body.status \in {"WAITING", "RUNNING"}
     /\ resp.body = snapshotCaptionTask(task[resp.taskId])
     /\ job[resp.taskId].pc \in {"dl_fetch", "rejected"}
     /\ asrCalls[resp.taskId] = 1

\* C5 witness: create has answered with a Running / downloading snapshot while the
\* download is in flight.
C5_Witness ==
  /\ resp.op = "create"
  /\ resp.code = 200
  /\ resp.body.status = "RUNNING"
  /\ resp.body.stage = "downloading"
  /\ job[resp.taskId].pc = "dl_fetch"

\* C6: a step in which create answers with an error adds no task to the registry,
\* allocates no task id, starts no detached job and invokes no ASR adapter.
C6_CreateErrorRegistersNothing ==
  [][(resp'.op = "create" /\ resp'.code # 200)
     => /\ captionTasks' \subseteq captionTasks
        /\ nextId' = nextId
        /\ task' = task
        /\ job' = job
        /\ asrCalls' = asrCalls]_vars

\* C6 witness: create has answered 500 because the metadata has no playable URL.
C6_Witness ==
  /\ resp.op = "create"
  /\ resp.code = 500
  /\ resp.error = "no_play_url"
  /\ captionTasks = {}
  /\ nextId = 1

\* C7: when the detached job has ended on an error that is no cancellation error
\* and the handle was not signalled, the task is in Failure / failed with that
\* error's non-empty message; every job that has ended left the task terminal (the
\* job itself never fails); no create response carries a failure.
C7_AdapterErrorRecordedOnTask ==
  /\ \A t \in Ids :
       /\ (job[t].pc = "done" /\ job[t].err # NoErr /\ job[t].err.name # "AbortError"
             /\ job[t].err.message # CANCEL_MSG /\ ~task[t].aborted)
          => /\ task[t].status = "FAILURE"
             /\ task[t].stage = "failed"
             /\ task[t].error = job[t].err.message
             /\ task[t].error \notin {"", NoError}
             /\ task[t].transcript = None
       /\ job[t].pc = "done" => IsTerminal(task[t].status)
  /\ (resp.op = "create" /\ resp.code = 200)
     => resp.body.status # "FAILURE" /\ resp.body.error = NoError

\* C7 witness: the transcoder exited with a non-zero code and the task is in
\* Failure / failed, seen by a query.
C7_Witness ==
  /\ resp.op = "query"
  /\ resp.code = 200
  /\ resp.body.status = "FAILURE"
  /\ resp.body.error = "ffmpeg_exit_nonzero"
  /\ job[resp.taskId].pc = "done"

\* C8: query with a task id answers 404 when the id is not registered or the task
\* is terminal and last updated more than the TTL ago; otherwise it answers 200
\* with the task's snapshot, leaves the task as it is and leaves it registered.
C8_QueryNotFoundOrSnapshot ==
  [][(resp'.op = "query" /\ resp'.taskId # NoId)
     => LET id == resp'.taskId IN
        IF id \notin captionTasks \/ IsExpired(task[id], now)
        THEN resp'.code = 404 /\ id \notin captionTasks'
        ELSE /\ resp'.code = 200
             /\ resp'.body = snapshotCaptionTask(task[id])
             /\ task'[id] = task[id]
             /\ id \in captionTasks']_vars

\* C8 witness: query answers 404 for the id of a task that was created and has
\* expired.
C8_Witness ==
  /\ resp.op = "query"
  /\ resp.code = 404
  /\ resp.taskId # NoId
  /\ resp.taskId < nextId
  /\ IsExpired(task[resp.taskId], now)

\* a step that runs cleanupCaptionTasks
SweepStep ==
  \/ resp'.op = "query"
  \/ cr.pc = "idle" /\ (cr'.pc = "body" \/ resp'.op = "create")
  \/ cn.pc = "idle" /\ (cn'.pc = "body" \/ resp'.op = "cancel")

\* C9: a step removes from the registry only tasks that are terminal and last
\* updated more than the TTL ago, so a Waiting or Running task is never removed;
\* a step that sweeps removes exactly those tasks, and none is registered after it.
C9_SweepRemovesExactlyExpired ==
  [][LET expired == {t \in captionTasks : IsExpired(task[t], now)} IN
     /\ (captionTasks \ captionTasks') \subseteq expired
     /\ SweepStep
        => /\ captionTasks \ captionTasks' = expired
           /\ \A t \in captionTasks' : ~IsExpired(task'[t], now')]_vars

\* C9 witness: a query (which sweeps first) still finds a Running task that was last
\* updated more than the TTL ago.
C9_Witness ==
  /\ resp.op = "query"
  /\ resp.code = 200
  /\ resp.body.status = "RUNNING"
  /\ now - resp.body.updatedAt > CAPTION_TASK_TTL_MS

\* position of a stage in the order queued < downloading < uploading < submitting
\* < polling < fetching_result < {done, failed, cancelled}
StageRank(stage) ==
  CASE stage = "none" -> 0
    [] stage = "queued" -> 1
    [] stage = "downloading" -> 2
    [] stage = "uploading" -> 3
    [] stage = "submitting" -> 4
    [] stage = "polling" -> 5
    [] stage = "fetching_result" -> 6
    [] OTHER -> 7

\* C19: no step moves the stage of a task backwards in the order queued <
\* downloading < uploading < submitting < polling < fetching_result < {done, failed,
\* cancelled}, and a stage of done, failed or cancelled is never replaced.
C19_StageOnlyAdvances ==
  [][\A t \in Ids :
       /\ StageRank(task'[t].stage) >= StageRank(task[t].stage)
       /\ task[t].stage \in {"done", "failed", "cancelled"}
          => task'[t].stage = task[t].stage]_vars

\* What is left of C19 for a task whose handle has not been signalled: its stage
\* never moves backwards.
StageAdvancesUnlessCancelled ==
  [][\A t \in Ids :
       ~task[t].aborted
       => StageRank(task'[t].stage) >= StageRank(task[t].stage)]_vars

\* C20 (the part about the transcoder and the outcome): once the handle of a task
\* is signalled, its job spawns no transcoder subprocess and never ends by
\* returning a transcript.
C20_NoWorkAfterCancel ==
  [][\A t \in Ids :
       task[t].aborted
       => /\ ~(job[t].pc # "ffmpeg" /\ job'[t].pc = "ffmpeg")
          /\ task'[t].status # "SUCCESS"]_vars

\* What holds of C20: a job suspended on a fetch, a body read or the timed sleep
\* when the handle is signalled ends in its very next step, and every job whose
\* handle was signalled before it ended leaves the task Cancelled.
CancelEndsAbortableAwaits ==
  [][\A t \in Ids :
       /\ (task[t].aborted /\ job[t].pc \in AbortablePcs /\ job'[t] # job[t])
          => job'[t].pc = "done"
       /\ (task[t].aborted /\ job[t].pc # "done" /\ job'[t].pc = "done")
          => task'[t].status = "CANCELLED"]_vars

\* C26: every registered task couples status, stage and fields: Waiting iff queued;
\* Running implies a stage from downloading to fetching_result; Success iff done, and
\* then the transcript is non-empty and error is unset; Failure iff failed, and then
\* error is set and transcript is unset; Cancelled iff cancelled, and then error is
\* the canonical cancellation string and transcript is unset.
C26_StatusStageCoupling ==
  \A t \in captionTasks :
    LET tk == task[t] IN
    /\ (tk.status = "WAITING") = (tk.stage = "queued")
    /\ tk.status = "RUNNING"
       => tk.stage \in {"downloading", "uploading", "submitting", "polling",
                        "fetching_result"}
    /\ (tk.status = "SUCCESS") = (tk.stage = "done")
    /\ tk.status = "SUCCESS"
       => IsSet(tk.transcript) /\ tk.transcript # <<>> /\ tk.error = NoError
    /\ (tk.status = "FAILURE") = (tk.stage = "failed")
    /\ tk.status = "FAILURE" => tk.error \notin {NoError, ""} /\ tk.transcript = None
    /\ (tk.status = "CANCELLED") = (tk.stage = "cancelled")
    /\ tk.status = "CANCELLED" => tk.error = CANCEL_MSG /\ tk.transcript = None

\* C26 witness: a task that was cancelled while its audio was being extracted and
\* that the job's next stage callback has put back to Running / submitting.
C26_Witness ==
  \E t \in captionTasks :
    /\ task[t].aborted
    /\ task[t].status = "RUNNING"
    /\ task[t].stage = "submitting"
    /\ task[t].error = CANCEL_MSG

\* the awaits of extractMp3FromVideoBuffer between mkdtemp and the end of finally
InsideExtract == {"writefile", "ffmpeg", "readfile", "rm"}

\* where the job of the flash adapter is once extractMp3FromVideoBuffer has returned
\* or raised
AfterExtract == {"flash_fetch", "flash_body", "done"}

\* C23 as stated: whenever a call of extractMp3FromVideoBuffer that created the
\* temporary directory has returned or raised, the directory no longer exists.
C23_TmpDirGoneAfterExtract ==
  \A t \in Ids : job[t].pc \in AfterExtract => ~job[t].tmp

\* C23 amended: the directory exists throughout the call once mkdtemp has made it; a
\* call that made it ends, on every path (success, failed write, spawn error,
\* non-zero exit, empty output, cancellation), only through the removal in finally;
\* after the call the directory exists only if that removal itself failed, which
\* is ignored: the call still returns its result or raises its pending error.
C23_TmpDirRemovalOnEveryExit ==
  [][\A t \in Ids :
       /\ job'[t].pc \in InsideExtract => job'[t].tmp /\ job'[t].rm = "none"
       /\ job'[t].pc \in AfterExtract => job'[t].tmp = (job'[t].rm = "failed")
       /\ (job[t].pc \in InsideExtract /\ job'[t].pc \notin InsideExtract)
          => /\ job[t].pc = "rm"
             /\ job'[t].rm \in {"removed", "failed"}
             /\ job'[t].err = job[t].err
             /\ job'[t].pc = IF job[t].err = NoErr THEN "flash_fetch" ELSE "done"
       /\ (job[t].pc \in InsideExtract /\ job'[t].pc \in InsideExtract
             /\ job'[t].pc # job[t].pc /\ job'[t].err # NoErr)
          => job'[t].pc = "rm"]_vars

\* C23 witness: the call was cancelled while the transcoder ran, raised the
\* cancellation error, and its directory has been removed.
C23_Witness ==
  \E t \in Ids :
    /\ job[t].pc = "done"
    /\ job[t].killed
    /\ job[t].err = Err(CANCEL_MSG)
    /\ job[t].rm = "removed"
    /\ ~job[t].tmp

\* h is what is left of s when characters are dropped from its front
IsSuffix(h, s) == Len(h) <= Len(s) /\ h = SubSeq(s, Len(s) - Len(h) + 1, Len(s))

\* C24: a cancellation signal that arrives while the transcoder runs calls kill in
\* that step; when the child closes, the call raises the cancellation error if the
\* signal is set, whatever the exit code; otherwise a non-zero exit raises the
\* transcode error, carrying the last 1200 characters of the trimmed stderr (all of
\* it when it is shorter), and only exit code 0 goes on to read the output.
C24_KillAndCloseDecides ==
  [][\A t \in Ids :
       /\ (job[t].pc = "ffmpeg" /\ ~task[t].aborted /\ task'[t].aborted)
          => job'[t].killed
       /\ (job[t].pc = "ffmpeg" /\ job'[t].pc # "ffmpeg" /\ job'[t].exit # "error")
          => IF task[t].aborted
             THEN job'[t].err = Err(CANCEL_MSG) /\ job'[t].pc = "rm"
             ELSE IF job'[t].exit = "code0"
             THEN job'[t].err = NoErr /\ job'[t].pc = "readfile"
             ELSE /\ job'[t].pc = "rm"
                  /\ job'[t].err.message = "ffmpeg_exit_nonzero"
                  /\ Len(job'[t].err.hint) <= STDERR_TAIL
                  /\ IsSuffix(job'[t].err.hint, Trim(job[t].stderr))
                  /\ Len(Trim(job[t].stderr)) >= STDERR_TAIL
                     => Len(job'[t].err.hint) = STDERR_TAIL
                  /\ Len(Trim(job[t].stderr)) < STDERR_TAIL
                     => job'[t].err.hint = Trim(job[t].stderr)
       /\ (job[t].pc # "readfile" /\ job'[t].pc = "readfile")
          => job'[t].exit = "code0" /\ ~task'[t].aborted]_vars

\* C24 witness: the signal arrived while the transcoder ran, the child was killed,
\* it closed with exit code 0, and the call is about to raise the cancellation
\* error.
C24_Witness ==
  \E t \in Ids :
    /\ job[t].pc = "rm"
    /\ job[t].killed
    /\ task[t].aborted
    /\ job[t].exit = "code0"
    /\ job[t].err = Err(CANCEL_MSG)

\* a non-zero exit whose stderr was longer than the excerpt
C24_TruncatedExcerpt ==
  \E t \in Ids :
    /\ job[t].exit = "code1"
    /\ job[t].err.message = "ffmpeg_exit_nonzero"
    /\ Len(job[t].err.hint) = STDERR_TAIL

\* ---------------------------------------------------------------------------
\* Claims about the poll loop and about termination (SpecPoll, SpecPollFair)
\* ---------------------------------------------------------------------------
\* C21: the poll loop sends at most 150 status requests (5 minutes / 2 seconds), each
\* no sooner than 2 seconds after the loop head armed the timer; it goes round only
\* while less than 5 minutes have passed since its start; the timeout error is
\* raised only at the loop head once the ceiling is reached, and it leaves the task
\* of a job that was not cancelled in Failure / failed with that error.
C21_PollLoopBounded ==
  [][\A t \in Ids :
       /\ job'[t].polls <= maxWaitMs \div pollInterval
       /\ job'[t].polls # job[t].polls
          => /\ job'[t].polls = job[t].polls + 1
             /\ job[t].pc = "sleep"
             /\ now >= job[t].timer
       /\ (job[t].pc \in {"submit_body", "poll_body"} /\ job'[t].pc = "sleep")
          => /\ now - job'[t].startTime < maxWaitMs
             /\ job'[t].timer = now + pollInterval
       /\ (job[t].pc # "done" /\ job'[t].pc = "done" /\ job'[t].err = Err("asr_timeout"))
          => /\ job[t].pc = "poll_body"
             /\ now - job[t].startTime >= maxWaitMs
             /\ ~task[t].aborted
             /\ task'[t].status = "FAILURE"
             /\ task'[t].stage = "failed"
             /\ task'[t].error = "asr_timeout"]_vars

\* C21 witness: the provider answered 150 status requests, sent every 2 seconds,
\* with a status that is not terminal; the job raised the timeout error and the task
\* is in Failure / failed.
C21_Witness ==
  \E t \in Ids :
    /\ job[t].pc = "done"
    /\ job[t].polls = maxWaitMs \div pollInterval
    /\ job[t].err = Err("asr_timeout")
    /\ task[t].status = "FAILURE"
    /\ task[t].stage = "failed"
    /\ task[t].error = "asr_timeout"

\* C25: every registered task that is Waiting or Running is later Success, Failure
\* or Cancelled, with cancel requests interleaved at any point.
C25_TaskEventuallyTerminal ==
  \A t \in Ids :
    (t \in captionTasks /\ ~IsTerminal(task[t].status)) ~> IsTerminal(task[t].status)

\* C25, the second half: no task stays Waiting or Running forever; from some point
\* on its status is Success, Failure or Cancelled for good.
C25_TaskStaysTerminal ==
  \A t \in Ids : [](t \in captionTasks => <>[]IsTerminal(task[t].status))

\* C25 witness: a task that was Running in the poll loop has ended by the timeout.
C25_Witness ==
  \E t \in Ids :
    /\ t \in captionTasks
    /\ job[t].pc = "done"
    /\ job[t].polls > 0
    /\ job[t].err = Err("asr_timeout")
    /\ IsTerminal(task[t].status)
    /\ now >= maxWaitMs

\* ---------------------------------------------------------------------------
\* Claims about the session cache (specification SpecSession)
\* ---------------------------------------------------------------------------
\* the handshake sequences in flight
InFlight == {r \in RefreshIds : refresh[r] \in {"fetch1", "text1", "fetch2", "text2"}}

\* C10: concurrent getDouyinWebSession calls against a cold cache share one
\* handshake: at most one refresh is in flight and it is the one the lock names;
\* every caller suspended in getDouyinWebSession awaits that refresh; every caller
\* resumed by a refresh holds the session that refresh produced.
C10_SingleFlightRefresh ==
  /\ Cardinality(InFlight) <= 1
  /\ InFlight = IF douyinWebSessionLock = NoLock THEN {} ELSE {douyinWebSessionLock}
  /\ \A c \in Callers :
       /\ fv[c].pc = "await_session"
          => fv[c].awaiting # NoLock /\ fv[c].awaiting = douyinWebSessionLock
       /\ (fv[c].pc \in {"list_fetch", "list_json"} /\ fv[c].awaiting # NoLock)
          => refresh[fv[c].awaiting] = "done" /\ fv[c].cookie = fv[c].awaiting

\* C10 witness: all callers called against the empty cache, one handshake was
\* started, and every caller has been resumed with that handshake's session.
C10_Witness ==
  /\ nextRefresh = 2
  /\ refresh[1] = "done"
  /\ \A c \in Callers :
       fv[c].pc = "list_fetch" /\ fv[c].attempt = 0 /\ fv[c].awaiting = 1 /\ fv[c].cookie = 1

\* caller c calls getDouyinWebSession for the first time in this step
FirstSessionCall(c) == fv[c].pc = "idle" /\ fv'[c].pc \in {"list_fetch", "await_session"}

\* the cache holds a session inside its validity window
CacheInWindow == douyinWebSession # NoSession /\ now < douyinWebSession.expiresAt - SESSION_MARGIN_MS

\* C11: a getDouyinWebSession call made while the cached session is inside its
\* validity window (now < expiresAt - 60 s) hands out that cached session and starts
\* no handshake: no refresh is created or advanced, lock and cache stay as they are.
C11_ValidCacheNoHandshake ==
  [][\A c \in Callers :
       (FirstSessionCall(c) /\ CacheInWindow)
       => /\ fv'[c].pc = "list_fetch"
          /\ fv'[c].cookie = douyinWebSession.cookie
          /\ fv'[c].expiresAt = douyinWebSession.expiresAt
          /\ nextRefresh' = nextRefresh
          /\ refresh' = refresh
          /\ douyinWebSessionLock' = douyinWebSessionLock
          /\ douyinWebSession' = douyinWebSession]_vars

\* C11 witness: one handshake has been made, time has passed inside the window, and a
\* later caller holds the cached session without having awaited any refresh.
C11_Witness ==
  \E c \in Callers :
    /\ fv[c].pc = "list_fetch"
    /\ fv[c].awaiting = NoLock
    /\ fv[c].cookie = 1
    /\ now > 0
    /\ nextRefresh = 2
    /\ douyinWebSession.cookie = 1

\* C12: whenever a caller is handed a session (from the cache or from a refresh it
\* awaited, started by itself or by another caller), that session is inside its
\* validity window at that moment: now < expiresAt - 60 s.
C12_SessionNeverPastMargin ==
  [][\A c \in Callers :
       fv'[c].requests > fv[c].requests
       => now' < fv'[c].expiresAt - SESSION_MARGIN_MS]_vars

\* C12 witness: after time has passed, two callers hold the session of one refresh
\* both awaited, handed out the moment it was produced.
C12_Witness ==
  \E c, d \in Callers :
    /\ c # d
    /\ fv[c].pc = "list_fetch" /\ fv[d].pc = "list_fetch"
    /\ fv[c].awaiting # NoLock /\ fv[d].awaiting = fv[c].awaiting
    /\ now > 0
    /\ fv[c].expiresAt = now + ttlMs /\ fv[d].expiresAt = now + ttlMs

\* C13: a refresh that fails ends every caller awaiting it in the error path (no
\* listing request, no further handshake step or new handshake in that step), leaves
\* the cached session as it was and clears the lock; a first getDouyinWebSession call
\* that finds no valid session and no lock starts a new refresh.
C13_RefreshFailure ==
  [][/\ \A r \in RefreshIds :
          (refresh[r] \in {"fetch1", "text1", "fetch2", "text2"} /\ refresh'[r] = "failed")
          => /\ douyinWebSession' = douyinWebSession
             /\ douyinWebSessionLock' = NoLock
             /\ nextRefresh' = nextRefresh
             /\ \A q \in RefreshIds \ {r} : refresh'[q] = refresh[q]
             /\ \A c \in Callers :
                  (fv[c].pc = "await_session" /\ fv[c].awaiting = r)
                  => /\ fv'[c].pc = "done"
                     /\ fv'[c].result = "empty"
                     /\ fv'[c].requests = fv[c].requests
     /\ \A c \in Callers :
          (FirstSessionCall(c) /\ ~CacheInWindow /\ douyinWebSessionLock = NoLock)
          => /\ nextRefresh' = nextRefresh + 1
             /\ refresh'[nextRefresh] = "fetch1"
             /\ douyinWebSessionLock' = nextRefresh
             /\ fv'[c].awaiting = nextRefresh]_vars

\* C13 witness: the first refresh failed, its caller ended without a listing request,
\* the cache is still empty and a later caller has started the second refresh.
C13_Witness ==
  /\ refresh[1] = "failed"
  /\ refresh[2] = "fetch2"
  /\ douyinWebSession = NoSession
  /\ douyinWebSessionLock = 2
  /\ \E c, d \in Callers :
       /\ fv[c].pc = "done" /\ fv[c].result = "empty" /\ fv[c].requests = 0
       /\ fv[c].answer = "videos"
       /\ fv[d].pc = "await_session" /\ fv[d].awaiting = 2

\* C14 as stated: a structural failure of the first listing request drops the cached
\* session, and the call then sends exactly one more listing request, with a session
\* produced after the invalidation; no call sends more than two listing requests.
C14_RetriesExactlyOnce ==
  [][\A c \in Callers :
       /\ (fv[c].attempt = 0 /\ fv'[c].attempt = 1) => douyinWebSession' = NoSession
       /\ fv'[c].requests <= 2
       /\ (fv'[c].pc = "done" /\ fv'[c].attempt = 1) => fv'[c].requests = 2
       /\ (fv[c].requests = 1 /\ fv'[c].requests = 2)
          => /\ fv[c].attempt = 1
             /\ refresh[fv'[c].cookie] # "done" /\ refresh'[fv'[c].cookie] = "done"]_vars

\* C14 amended: a structural failure of the first listing request drops the cached
\* session and the call asks for a session again; it sends one more listing request
\* when it is handed a session, produced after the invalidation, and none when that
\* handshake fails; no call sends more than two listing requests, and a failure of
\* the second request ends the call.
C14_RetriesAtMostOnce ==
  [][\A c \in Callers :
       /\ (fv[c].attempt = 0 /\ fv'[c].attempt = 1)
          => /\ douyinWebSession' = NoSession
             /\ fv'[c].pc = "await_session"
             /\ fv'[c].requests = 1
       /\ fv'[c].requests <= 2
       /\ fv'[c].requests <= fv'[c].attempt + 1
       /\ (fv'[c].pc = "done" /\ fv'[c].attempt = 1)
          => fv'[c].requests = IF fv'[c].awaiting = NoLock THEN 1 ELSE 2
       /\ (fv[c].requests = 1 /\ fv'[c].requests = 2)
          => /\ fv[c].attempt = 1
             /\ refresh[fv'[c].cookie] # "done" /\ refresh'[fv'[c].cookie] = "done"
       /\ (fv[c].attempt = 1 /\ fv[c].pc \in {"list_fetch", "list_json"})
          => /\ fv'[c].requests = fv[c].requests
             /\ fv'[c].pc \in {"list_fetch", "list_json", "done"}]_vars

\* C14 witness: a call whose first request failed structurally has sent its second
\* request with the session of a later refresh, that one failed too, and the call
\* has ended with two requests sent.
C14_Witness ==
  \E c \in Callers :
    /\ fv[c].pc = "done"
    /\ fv[c].attempt = 1
    /\ fv[c].requests = 2
    /\ fv[c].result = "empty"
    /\ fv[c].cookie = 2
    /\ refresh[1] = "done" /\ refresh[2] = "done"

\* C15: fetchUserVideos never raises and handleUserVideos never answers with an
\* error: a call that has ended returned the videos or the empty list, also after a
\* failed retry, a failed handshake or a request that threw, and the handler
\* answered 200 with {videos, secUid}.
C15_ListingNeverRaises ==
  \A c \in Callers :
    /\ fv[c].result \in {"none", "empty", "videos"}
    /\ fv[c].answer \in {"none", "videos", "videos_null_secUid"}
    /\ (fv[c].pc = "done") = (fv[c].answer # "none")
    /\ (fv[c].pc = "done" /\ fv[c].answer = "videos") => fv[c].result \in {"empty", "videos"}
    /\ fv[c].result = "videos" => fv[c].requests >= 1
    /\ fv[c].pc # "done" => fv[c].result = "none"

\* C15 witness: one call has ended with the empty list after its retry failed too,
\* another after the session handshake failed before any listing request.
C15_Witness ==
  \E c, d \in Callers :
    /\ fv[c].pc = "done" /\ fv[c].attempt = 1 /\ fv[c].requests = 2
    /\ fv[c].result = "empty" /\ fv[c].answer = "videos"
    /\ fv[d].pc = "done" /\ fv[d].requests = 0
    /\ fv[d].result = "empty" /\ fv[d].answer = "videos"
    /\ \E r \in RefreshIds : refresh[r] = "failed"

\* C27: at most one handshake is in flight after every step, also a step in which a
\* failed listing request invalidates the session; a handshake is started only while
\* none is in flight and the lock is clear, and the lock then names it; the lock
\* changes from naming a refresh only when that very refresh settles, and a refresh
\* that settles is the one the lock names, so no clearing hits a later refresh.
C27_OneHandshakeInFlight ==
  [][/\ Cardinality(InFlight') <= 1
     /\ nextRefresh' # nextRefresh
        => /\ InFlight = {}
           /\ douyinWebSessionLock = NoLock
           /\ douyinWebSessionLock' = nextRefresh
           /\ InFlight' = {nextRefresh}
     /\ (douyinWebSessionLock # NoLock /\ douyinWebSessionLock' # douyinWebSessionLock)
        => /\ douyinWebSessionLock \in InFlight
           /\ refresh'[douyinWebSessionLock] \in {"done", "failed"}
           /\ douyinWebSessionLock' = NoLock
     /\ \A r \in InFlight :
          refresh'[r] \in {"done", "failed"} => douyinWebSessionLock = r]_vars

\* C27 witness: the first handshake is done, every caller's listing request failed,
\* the first failure invalidated the session and started the second handshake, and
\* every caller now awaits that one.
C27_Witness ==
  /\ refresh[1] = "done"
  /\ refresh[2] \in {"fetch1", "text1", "fetch2", "text2"}
  /\ douyinWebSessionLock = 2
  /\ nextRefresh = 3
  /\ douyinWebSession = NoSession
  /\ \A c \in Callers :
       fv[c].pc = "await_session" /\ fv[c].attempt = 1 /\ fv[c].awaiting = 2

\* C28: when a failed listing request makes its call invalidate the cache, the
\* session in the cache (if any) is the one that request was sent with.
C28_InvalidatesOwnSession ==
  [][\A c \in Callers :
       (fv[c].attempt = 0 /\ fv'[c].attempt = 1)
       => \/ douyinWebSession = NoSession
          \/ douyinWebSession.cookie = fv[c].cookie]_vars

\* C28, the consequence: no call starts a handshake while the cache holds a session
\* newer than the one its failed request was sent with.
C28_NoHandshakeOverNewerSession ==
  [][\A c \in Callers :
       (fv[c].attempt = 0 /\ fv'[c].attempt = 1 /\ nextRefresh' # nextRefresh)
       => ~(douyinWebSession # NoSession /\ douyinWebSession.cookie > fv[c].cookie
              /\ now < douyinWebSession.expiresAt - SESSION_MARGIN_MS)]_vars


\* ---------------------------------------------------------------------------
\* Claims about the link handlers (specification SpecHandlers)
\* ---------------------------------------------------------------------------

\* The host of href is douyin.com, iesdouyin.com or a subdomain of either
InPlatformDomain(href) ==
  LET host == ParseUrl(href).hostname IN
  /\ ParseUrl(href).valid
  /\ \E k \in 1..Len(host) :
       SubSeq(host, k, Len(host)) \in {<<"douyin", "com">>, <<"iesdouyin", "com">>}

\* This step calls fetch
SendsRequest ==
  /\ rq'.requests # 0
  /\ rq'.requests # rq.requests \/ rq.pc \in {"idle", "done"}

\* C22: resolveRedirects (called by handleResolve, whose only requests are those of
\* resolveRedirects) sends at most maxHops requests and every request uses up one
\* of the maxHops passes of its loop, so it ends, on a redirect cycle too; the
\* URL of every request, the start URL and every redirect target, is the URL the
\* safety check accepted in the same step, and lies in the platform domain.
C22_ResolveChecksEveryHop ==
  [][rq'.handler = "resolve" =>
       /\ rq'.requests <= RESOLVE_MAX_HOPS
       /\ rq'.i <= RESOLVE_MAX_HOPS
       /\ rq'.pc = "hop" => rq'.requests = rq'.i + 1
       /\ (rq.pc = "hop" /\ rq'.pc = "hop") => rq'.i = rq.i + 1
       /\ SendsRequest =>
            /\ rq'.requested = rq'.checked
            /\ rq'.requested = rq'.current
            /\ InPlatformDomain(rq'.requested)
            /\ ParseUrl(rq'.requested).protocol \in {"http:", "https:"}]_vars

\* C22 witness: a chain of maxHops redirects was followed, one request per hop, the
\* last of them to a redirect target
C22_Witness ==
  /\ rq.handler = "resolve"
  /\ rq.pc = "done"
  /\ rq.requests = RESOLVE_MAX_HOPS
  /\ rq.i = RESOLVE_MAX_HOPS
  /\ rq.requested # rq.extracted

\* A redirect target outside the platform domain is never requested: the function
\* ends there and the handler falls back to the caller's link
C22_ForeignTargetNotRequested ==
  [][(rq.pc = "hop" /\ rq'.handler = "resolve" /\ rq'.current # rq.current
        /\ rq'.i < RESOLVE_MAX_HOPS /\ ~InPlatformDomain(rq'.current))
       => /\ rq'.pc = "done"
          /\ rq'.requests = rq.requests
          /\ rq'.requested # rq'.current
          /\ rq'.resolved = rq'.extracted]_vars

\* C29: the resolvedUrl that handleResolve reports is in the platform domain, for
\* every redirect chain.
C29_ResolvedInPlatformDomain ==
  (rq.handler = "resolve" /\ rq.pc = "done" /\ rq.resolved # "")
    => InPlatformDomain(rq.resolved)

\* What the code does keep: a resolved URL outside the platform domain is the
\* target of the redirect that used up the last hop
ResolvedInPlatformDomainBelowLimit ==
  (rq.handler = "resolve" /\ rq.pc = "done" /\ rq.resolved # ""
     /\ rq.i < RESOLVE_MAX_HOPS)
    => InPlatformDomain(rq.resolved)

\* This step calls fetch with the caller's link or with a redirect target reached
\* from it
RequestsCallerUrl == SendsRequest /\ rq'.origin \in {"caller", "redirect"}

\* C30: no handler sends a request to a caller-supplied URL that a safety check
\* (assertSafeExternalHttpUrl or assertSafeDouyinUrl) has not accepted before.
C30_CheckBeforeRequest ==
  [][RequestsCallerUrl => rq'.checked = rq'.requested]_vars

\* handleResolve and handleParaformerTranscribe check before they request
CheckBeforeRequestExceptTranscribe ==
  [][(RequestsCallerUrl /\ rq'.handler # "transcribe")
       => rq'.checked = rq'.requested]_vars

\* ---------------------------------------------------------------------------
\* Claims about pure functions (specification SpecPure)
\* ---------------------------------------------------------------------------

\* out consists of entries of listed at pairwise different positions, and every
\* entry of listed at another position has a like count no greater than any in out
TopOf(out, listed) ==
  \E f \in [1..Len(out) -> 1..Len(listed)] :
    /\ \A i, j \in 1..Len(out) : i # j => f[i] # f[j]
    /\ \A i \in 1..Len(out) : out[i] = listed[f[i]]
    /\ \A k \in 1..Len(listed) :
         (\A i \in 1..Len(out) : f[i] # k)
         => \A i \in 1..Len(out) : out[i].diggCount >= listed[k].diggCount

\* C16: the videos a successful listing returns are in non-increasing order of like
\* count, are at most count many (count many when that many were listed), and every
\* listed video with an id that was left out has a like count no greater than that
\* of any returned video.
C16_SortedThenTruncated ==
  call.fn = "fetchUserVideos"
  => LET out == call.ret
         count == call.arg.count
         listed == FilterValid(call.arg.videos)
     IN /\ Len(out) <= count
        /\ Len(out) = IF Len(listed) < count THEN Len(listed) ELSE count
        /\ \A i \in 1..Len(out) - 1 : out[i].diggCount >= out[i + 1].diggCount
        /\ TopOf(out, listed)

\* C16 witness: three videos listed in increasing order of like count, two asked
\* for: the result is cut and starts with the most liked one.
C16_Witness ==
  /\ call.fn = "fetchUserVideos"
  /\ call.arg.count = 2
  /\ Len(call.arg.videos) = 3
  /\ \A i \in 1..3 : call.arg.videos[i].awemeId # 0
  /\ call.arg.videos[1].diggCount < call.arg.videos[2].diggCount
  /\ call.arg.videos[2].diggCount < call.arg.videos[3].diggCount
  /\ Len(call.ret) = 2
  /\ call.ret[1] = call.arg.videos[3]

\* hosts that are loopback, link-local or internal: localhost, ::1, *.local, 0.0.0.0,
\* 127/8, 169.254/16, 10/8, 192.168/16, 172.16/12
InternalHost(host) ==
  \/ host \in {<<"localhost">>, <<"[::1]">>, <<"0", "0", "0", "0">>}
  \/ Len(host) >= 2 /\ host[Len(host)] = "local"
  \/ Len(host) = 4 /\ host[1] \in {"127", "10"}
  \/ Len(host) = 4 /\ host[1] = "169" /\ host[2] = "254"
  \/ Len(host) = 4 /\ host[1] = "192" /\ host[2] = "168"
  \/ Len(host) = 4 /\ host[1] = "172" /\ host[2] = "16"

\* C17: assertSafeExternalHttpUrl throws for every URL whose scheme is neither http
\* nor https and for every URL whose host is loopback, link-local or internal, among
\* them http://127.0.0.1/x and http://169.254.169.254/.
C17_RejectsUnsafeUrls ==
  call.fn = "assertSafeExternalHttpUrl"
  => LET parsed == ParseUrl(call.arg) IN
     /\ (~parsed.valid \/ parsed.protocol \notin {"http:", "https:"}
           \/ InternalHost(parsed.hostname)) => call.ret # "ok"
     /\ call.arg \in {"http://127.0.0.1/x", "http://169.254.169.254/"} => call.ret # "ok"

\* C18 as stated: the flash adapter returns a transcript only when the HTTP status
\* is 2xx, the business status is the success code and the trimmed text is not
\* empty; a 2xx answer with a failure business status throws, and so does an empty
\* text.
C18_FlashBusinessStatus ==
  call.fn = "transcribeWithDoubaoBigasrFlash"
  => /\ ~call.ret.threw
        => /\ call.arg.httpOk
           /\ call.arg.statusNum = FLASH_OK
           /\ call.ret.transcript # <<>>
     /\ (call.arg.httpOk /\ call.arg.statusNum \notin {0, FLASH_OK}) => call.ret.threw
     /\ Trim(call.arg.text) = <<>> => call.ret.threw

\* C18 amended: the flash adapter returns a transcript only when the HTTP status is
\* 2xx, the business status header is the success code or is absent (reads as 0),
\* and the text is not empty after trimming; a 2xx answer with a failure business
\* status throws, and so does a text that is empty after trimming.
C18_FlashBusinessStatusOrAbsent ==
  call.fn = "transcribeWithDoubaoBigasrFlash"
  => /\ ~call.ret.threw
        => /\ call.arg.httpOk
           /\ call.arg.statusNum \in {0, FLASH_OK}
           /\ Trim(call.arg.text) # <<>>
     /\ (call.arg.httpOk /\ call.arg.statusNum \notin {0, FLASH_OK}) => call.ret.threw
     /\ Trim(call.arg.text) = <<>> => call.ret.threw

\* C18 witness: a 2xx answer with a failure business status and a usable text has
\* been refused with the provider's message.
C18_Witness ==
  /\ call.fn = "transcribeWithDoubaoBigasrFlash"
  /\ call.arg.httpOk
  /\ call.arg.statusNum = FLASH_OK + 1
  /\ Trim(call.arg.text) # <<>>
  /\ call.ret.threw
  /\ call.ret.error = "provider_message"

====
